---------------------------- MODULE Spec2Model ----------------------------
(***************************************************************************)
(* A model of the retrieval-and-generation core of el-bayan:               *)
(*   - GeminiLLM.generate / GeminiLLM.stream_generate  (generation client) *)
(*   - FAISSVectorStore                               (vector store)       *)
(*   - RetrievalEngine / RAGPipeline.query            (retrieval, query)   *)
(*   - TextChunker.chunk_text                         (chunking)           *)
(*   - RAGPipeline.index_documents / stream_query     (pipeline)           *)
(*   - backend/api.py                                 (HTTP boundary)      *)
(* The specifications share the variables: SpecGen (and FairSpecGen),      *)
(* SpecCancel, SpecStore, SpecPersist, SpecQuery, SpecChunk, SpecIndex,    *)
(* SpecPipe, SpecApi, SpecConc, SpecDim, SpecRepeat, SpecCrash and         *)
(* SpecChatStream.  In each, the variables of the other components keep    *)
(* their initial values.                                                   *)
(***************************************************************************)
EXTENDS Integers, Sequences, FiniteSets, TLC

VARIABLES
    \* ---- GeminiLLM.generate (wrapped by tenacity's @retry) ----
    gpc,             \* "idle" | "request" | "returned" | "raised"
    gCaller,         \* "none" | "user" | "stream"
    attempt_number,  \* tenacity's retry_state.attempt_number (1-based)
    gLog,            \* outcome of every HTTP request of the current call
    gWaits,          \* seconds slept between consecutive attempts
    gResult,         \* "none" | "text" | "empty"
    \* ---- GeminiLLM.stream_generate (a generator) ----
    spc,             \* "idle" | "loop" | "reading" | "yielded" | "fallback"
                     \* | "yielded_fb" | "done" | "raised"
    attempt,         \* loop variable of  for attempt in range(max_retries)
    last_error,      \* "none" | "429"
    chunks_yielded,  \* fragments yielded by the current attempt
    linesRead,       \* lines consumed from the current response
    terminal,        \* "none" | "marker" | "eof": how the stream ended
    sLog,            \* outcome of every streaming request of the call
    sWaits,          \* seconds slept after each rate-limited attempt
    yielded,         \* fragments handed to the consumer so far
    genCalls,        \* invocations of self.generate by this call
    \* ---- FAISSVectorStore ----
    dimension,       \* self.dimension
    hasPaths,        \* index_path and metadata_path are set
    index,           \* self.index: [d, vecs]; ntotal = Len(index.vecs)
    texts,           \* self.texts
    metadata,        \* self.metadata
    id_to_metadata,  \* self.id_to_metadata
    disk_index,      \* the file at index_path
    disk_meta,       \* the file at metadata_path
    lastCall,        \* the last call on the store and how it ended
    assigned_ids,    \* history: the ids entries of this instance have held
    \* ---- RAGPipeline.query ----
    qLast,           \* what the last query did and returned
    csGen,           \* the generator of a /chat/stream response, step by step
    \* ---- TextChunker.chunk_text ----
    cLast,           \* the last chunk_text call: configuration, text, chunks
    chunker,         \* the attributes of a TextChunker instance
    cEarlier,        \* history: an earlier chunk_text call of that instance
    \* ---- consumers of the stream, RAGPipeline, the HTTP boundary ----
    sClosed,         \* the consumer has closed the generator of this call
    tasks,           \* the requests in flight: handler, position, what it saw
    loopOwner,       \* the task the event loop is running (0: none)
    iLast,           \* the last index_documents call and how it ended
    sqLast,          \* what the last stream_query call did and yielded
    aLast            \* the last HTTP response of the boundary layer

genVars == <<gpc, gCaller, attempt_number, gLog, gWaits, gResult>>
streamVars == <<spc, attempt, last_error, chunks_yielded, linesRead,
                terminal, sLog, sWaits, yielded, genCalls>>
storeVars == <<dimension, hasPaths, index, texts, metadata, id_to_metadata,
               disk_index, disk_meta, lastCall, assigned_ids>>
queryVars == <<qLast, csGen>>
chunkVars == <<cLast, chunker, cEarlier>>
cancelVars == <<sClosed>>
concVars == <<tasks, loopOwner>>
callVars == <<iLast, sqLast, aLast>>
pipeVars == <<cancelVars, concVars, callVars>>
nonGenVars == <<storeVars, queryVars, chunkVars, pipeVars>>
vars == <<genVars, streamVars, storeVars, queryVars, chunkVars, pipeVars>>

Min(a, b) == IF a <= b THEN a ELSE b
Max(a, b) == IF a >= b THEN a ELSE b

(***************************************************************************)
(* Bounds of the model.                                                    *)
(***************************************************************************)
\* Lines one streaming HTTP response can carry before it ends.
MaxLines == 3

(***************************************************************************)
(* GeminiLLM.generate, gemini_llm.py:177-237                               *)
(***************************************************************************)
\* stop_after_attempt(5)
StopAttempts == 5
\* wait_exponential(multiplier=1, min=2, max=30)
WaitMin == 2
WaitMax == 30
\* time.sleep(2) on a 429 response
RateLimitSleep == 2
\* for attempt in range(max_retries), default max_retries = 5
max_retries == 5
\* min(2 ** attempt, 30)
StreamWaitCap == 30

\* What one requests.post of generate can end in.
\*   ok_text / ok_empty : 200 with a non-empty / empty (or blank) completion
\*   http429            : status 429
\*   http_error         : any other 4xx/5xx status (raise_for_status raises)
\*   timeout            : requests.exceptions.Timeout
\*   conn_error         : any other exception (connection error, bad payload)
GenOutcomes ==
    {"ok_text", "ok_empty", "http429", "http_error", "timeout", "conn_error"}

\* retry_if_exception_type((HTTPError, Timeout)): the except clauses of
\* generate re-raise every exception unchanged, so tenacity sees the type.
retry_if_exception_type(o) == o \in {"http429", "http_error", "timeout"}

\* Mutant of stop_after_attempt: tenacity never gives up.
stop_never(n) == FALSE

stop_after_attempt(n) == n >= StopAttempts

\* tenacity (8.x): max(max(0, min), min(multiplier * 2 ** (attempt_number - 1), max))
wait_exponential(n) == Max(Max(0, WaitMin), Min(2 ^ (n - 1), WaitMax))

\* Seconds generate itself sleeps before the exception leaves it.
InnerSleep(o) == IF o = "http429" THEN RateLimitSleep ELSE 0

\* One attempt of generate together with tenacity's decision about it.
GenerateAttempt(o) ==
    /\ gLog' = Append(gLog, o)
    /\ IF o \in {"ok_text", "ok_empty"}
       THEN /\ gpc' = "returned"
            /\ gResult' = IF o = "ok_text" THEN "text" ELSE "empty"
            /\ UNCHANGED <<attempt_number, gWaits>>
       ELSE IF retry_if_exception_type(o) /\ ~stop_after_attempt(attempt_number)
       THEN /\ gpc' = "request"
            /\ attempt_number' = attempt_number + 1
            /\ gWaits' = Append(gWaits,
                                InnerSleep(o) + wait_exponential(attempt_number))
            /\ UNCHANGED gResult
       ELSE /\ gpc' = "raised"
            /\ UNCHANGED <<attempt_number, gWaits, gResult>>

\* The state in which a fresh generate call starts.
GenStart(caller) ==
    /\ gpc' = "request"
    /\ gCaller' = caller
    /\ attempt_number' = 1
    /\ gLog' = <<>>
    /\ gWaits' = <<>>
    /\ gResult' = "none"

GenReset ==
    /\ gpc' = "idle"
    /\ gCaller' = "none"
    /\ attempt_number' = 1
    /\ gLog' = <<>>
    /\ gWaits' = <<>>
    /\ gResult' = "none"

\* A caller (answer_question) invokes generate.
GenerateCall ==
    /\ gpc = "idle"
    /\ spc = "idle"
    /\ GenStart("user")
    /\ UNCHANGED streamVars
    /\ UNCHANGED nonGenVars

\* requests.post of generate and everything up to the next request.
GenerateRequest ==
    /\ gpc = "request"
    /\ \E o \in GenOutcomes : GenerateAttempt(o)
    /\ UNCHANGED <<gCaller, streamVars>>
    /\ UNCHANGED nonGenVars

\* The caller has taken the result (or the exception) of generate.
GenerateFinish ==
    /\ gpc \in {"returned", "raised"}
    /\ gCaller = "user"
    /\ GenReset
    /\ UNCHANGED streamVars
    /\ UNCHANGED nonGenVars

(***************************************************************************)
(* GeminiLLM.stream_generate, gemini_llm.py:318-428                        *)
(***************************************************************************)
\* What one streaming requests.post can end in.
StreamOutcomes == {"200", "429", "500", "timeout", "conn_error"}

\* What the next step of  for line in response.iter_lines()  can meet.
\*   content : a data line whose delta carries non-empty content
\*   skip    : a blank line, a non-data line, a delta without content, or
\*             a line that is not JSON
\*   marker  : data: [DONE]
\*   eof     : the response ends (the connection closes)
\*   broken  : iter_lines raises
LineKinds == {"content", "skip", "marker", "eof", "broken"}

\* Mutant of wait_time: the same delay after every attempt.
wait_time_constant(a) == WaitMin

\* wait_time = min(2 ** attempt, 30)
wait_time(a) == Min(2 ^ a, StreamWaitCap)

\* After the for loop: raise last_error if there is one.
AfterLoop(le) == IF le # "none" THEN "raised" ELSE "done"

\* continue: the next iteration of the loop, or the code after the loop.
Continue(le) ==
    /\ attempt' = attempt + 1
    /\ last_error' = le
    /\ spc' = IF attempt + 1 < max_retries THEN "loop" ELSE AfterLoop(le)

\* The consumer creates the generator and starts pulling from it.
StreamCall ==
    /\ spc = "idle"
    /\ gpc = "idle"
    /\ spc' = "loop"
    /\ attempt' = 0
    /\ last_error' = "none"
    /\ chunks_yielded' = 0
    /\ linesRead' = 0
    /\ terminal' = "none"
    /\ sLog' = <<>>
    /\ sWaits' = <<>>
    /\ yielded' = <<>>
    /\ genCalls' = 0
    /\ UNCHANGED genVars
    /\ UNCHANGED nonGenVars

\* One iteration of the retry loop up to the first line of the response:
\* lines 333-370 and the except clauses 412-423.
StreamPost ==
    /\ spc = "loop"
    /\ attempt < max_retries
    /\ \E o \in StreamOutcomes :
        /\ sLog' = Append(sLog, o)
        /\ IF o = "429"
           THEN \* lines 362-366: sleep and continue, last_error untouched
                /\ sWaits' = Append(sWaits, wait_time(attempt))
                /\ Continue(last_error)
                /\ UNCHANGED <<chunks_yielded, linesRead>>
           ELSE IF o = "500"
           THEN \* raise_for_status raises HTTPError: lines 412-420
                IF o = "429"
                THEN /\ sWaits' = Append(sWaits, wait_time(attempt))
                     /\ Continue("429")
                     /\ UNCHANGED <<chunks_yielded, linesRead>>
                ELSE /\ spc' = "raised"
                     /\ UNCHANGED <<attempt, last_error, sWaits,
                                    chunks_yielded, linesRead>>
           ELSE IF o \in {"timeout", "conn_error"}
           THEN \* lines 421-423
                /\ spc' = "raised"
                /\ UNCHANGED <<attempt, last_error, sWaits,
                               chunks_yielded, linesRead>>
           ELSE /\ spc' = "reading"
                /\ chunks_yielded' = 0
                /\ linesRead' = 0
                /\ UNCHANGED <<attempt, last_error, sWaits>>
    /\ UNCHANGED <<terminal, yielded, genCalls, genVars>>
    /\ UNCHANGED nonGenVars

\* The stream reached its end (marker: lines 376-387, eof: lines 400-410).
StreamEnd(how) ==
    /\ terminal' = how
    /\ IF chunks_yielded = 0
       THEN /\ spc' = "fallback"
            /\ genCalls' = genCalls + 1
            /\ GenStart("stream")
       ELSE /\ spc' = "done"
            /\ UNCHANGED <<genCalls, genVars>>
    /\ UNCHANGED <<chunks_yielded, linesRead, yielded>>

\* One step of the line loop, lines 371-398.
StreamReadLine ==
    /\ spc = "reading"
    /\ \E l \in LineKinds :
        /\ l # "eof" => linesRead < MaxLines
        /\ CASE l = "content" ->
                  /\ chunks_yielded' = chunks_yielded + 1
                  /\ linesRead' = linesRead + 1
                  /\ yielded' = Append(yielded,
                                  [from |-> "stream", attempt |-> attempt])
                  /\ spc' = "yielded"
                  /\ UNCHANGED <<terminal, genCalls, genVars>>
             [] l = "skip" ->
                  /\ linesRead' = linesRead + 1
                  /\ UNCHANGED <<spc, chunks_yielded, terminal, yielded,
                                 genCalls, genVars>>
             [] l = "marker" -> StreamEnd("marker")
             [] l = "eof" -> StreamEnd("eof")
             [] l = "broken" ->
                  /\ spc' = "raised"
                  /\ UNCHANGED <<chunks_yielded, linesRead, terminal, yielded,
                                 genCalls, genVars>>
    /\ UNCHANGED <<attempt, last_error, sLog, sWaits>>
    /\ UNCHANGED nonGenVars

\* Mutant of StreamResume: the generator resumes at the top of the retry
\* loop.
StreamResumeAtLoop ==
    /\ spc = "yielded"
    /\ spc' = "loop"
    /\ UNCHANGED <<attempt, last_error, chunks_yielded, linesRead, terminal,
                   sLog, sWaits, yielded, genCalls, genVars>>
    /\ UNCHANGED nonGenVars

\* The consumer asks for the next fragment: the generator resumes after
\* yield content (line 395).
StreamResume ==
    /\ spc = "yielded"
    /\ spc' = "reading"
    /\ UNCHANGED <<attempt, last_error, chunks_yielded, linesRead, terminal,
                   sLog, sWaits, yielded, genCalls, genVars>>
    /\ UNCHANGED nonGenVars

\* self.generate(prompt) of the fallback has returned or raised:
\* lines 381-387 and 404-410.
StreamFallbackResult ==
    /\ spc = "fallback"
    /\ gpc \in {"returned", "raised"}
    /\ IF gpc = "returned" /\ gResult = "text"
       THEN /\ yielded' = Append(yielded,
                            [from |-> "fallback", attempt |-> attempt])
            /\ spc' = "yielded_fb"
       ELSE \* an empty result is not yielded; an exception is logged only
            /\ spc' = "done"
            /\ UNCHANGED yielded
    /\ gpc' = "idle"
    /\ gCaller' = "none"
    /\ UNCHANGED <<attempt_number, gLog, gWaits, gResult>>
    /\ UNCHANGED <<attempt, last_error, chunks_yielded, linesRead, terminal,
                   sLog, sWaits, genCalls>>
    /\ UNCHANGED nonGenVars

\* The generator resumes after yield non_stream_response and returns.
StreamResumeFallback ==
    /\ spc = "yielded_fb"
    /\ spc' = "done"
    /\ UNCHANGED <<attempt, last_error, chunks_yielded, linesRead, terminal,
                   sLog, sWaits, yielded, genCalls, genVars>>
    /\ UNCHANGED nonGenVars

\* The consumer drops the finished generator.
StreamFinish ==
    /\ spc \in {"done", "raised"}
    /\ spc' = "idle"
    /\ attempt' = 0
    /\ last_error' = "none"
    /\ chunks_yielded' = 0
    /\ linesRead' = 0
    /\ terminal' = "none"
    /\ sLog' = <<>>
    /\ sWaits' = <<>>
    /\ yielded' = <<>>
    /\ genCalls' = 0
    /\ GenReset
    /\ UNCHANGED nonGenVars

GenInit ==
    /\ gpc = "idle"
    /\ gCaller = "none"
    /\ attempt_number = 1
    /\ gLog = <<>>
    /\ gWaits = <<>>
    /\ gResult = "none"
    /\ spc = "idle"
    /\ attempt = 0
    /\ last_error = "none"
    /\ chunks_yielded = 0
    /\ linesRead = 0
    /\ terminal = "none"
    /\ sLog = <<>>
    /\ sWaits = <<>>
    /\ yielded = <<>>
    /\ genCalls = 0

NextGen ==
    \/ GenerateCall
    \/ GenerateRequest
    \/ GenerateFinish
    \/ StreamCall
    \/ StreamPost
    \/ StreamReadLine
    \/ StreamResume
    \/ StreamFallbackResult
    \/ StreamResumeFallback
    \/ StreamFinish

(***************************************************************************)
(* Closing the generator: the consumer of stream_generate (through         *)
(* stream_answer_question and stream_query, whose for loops hold the only  *)
(* references) stops pulling.  The generator is suspended where it has not *)
(* started yet or at one of its yield statements.                          *)
(***************************************************************************)
\* The except clauses around the yield statements: line 396 encloses the
\* yield of line 395, lines 412 and 421 enclose all of them, lines 385 and
\* 408 enclose the yields of the fallback.
Handlers(pc) ==
    CASE pc = "yielded" -> <<"JSONDecodeError", "HTTPError", "Exception">>
      [] pc = "yielded_fb" -> <<"Exception", "HTTPError", "Exception">>
      [] OTHER -> <<>>

\* GeneratorExit derives from BaseException: none of the clauses matches.
Matches(handler, exc) == exc # "GeneratorExit" /\ handler = "Exception"

\* Mutant of close: closing does not stop the generator.
close_ignored(pc) == pc

\* generator.close(): a generator that has not started is marked finished;
\* otherwise GeneratorExit is raised at the yield and leaves the generator
\* unless a clause catches it.
close(pc) ==
    IF pc = "created" THEN "closed"
    ELSE IF \E i \in 1..Len(Handlers(pc)) : Matches(Handlers(pc)[i], "GeneratorExit")
    THEN pc
    ELSE "closed"

\* The consumer creates the generator: no code of stream_generate runs.
StreamCreate ==
    /\ spc = "idle"
    /\ gpc = "idle"
    /\ spc' = "created"
    /\ sClosed' = FALSE
    /\ UNCHANGED <<attempt, last_error, chunks_yielded, linesRead, terminal,
                   sLog, sWaits, yielded, genCalls, genVars>>
    /\ UNCHANGED <<storeVars, queryVars, chunkVars, concVars, callVars>>

\* The first next(): the generator runs from line 330.
StreamStart ==
    /\ spc = "created"
    /\ spc' = "loop"
    /\ UNCHANGED <<attempt, last_error, chunks_yielded, linesRead, terminal,
                   sLog, sWaits, yielded, genCalls, genVars>>
    /\ UNCHANGED nonGenVars

\* The consumer closes the suspended generator (or drops its last
\* reference, which closes it).
StreamClose ==
    /\ spc \in {"created", "yielded", "yielded_fb"}
    /\ ~sClosed
    /\ spc' = close(spc)
    /\ sClosed' = TRUE
    /\ UNCHANGED <<attempt, last_error, chunks_yielded, linesRead, terminal,
                   sLog, sWaits, yielded, genCalls, genVars>>
    /\ UNCHANGED <<storeVars, queryVars, chunkVars, concVars, callVars>>

\* The closed generator is discarded.
StreamDiscard ==
    /\ spc = "closed"
    /\ spc' = "idle"
    /\ attempt' = 0
    /\ last_error' = "none"
    /\ chunks_yielded' = 0
    /\ linesRead' = 0
    /\ terminal' = "none"
    /\ sLog' = <<>>
    /\ sWaits' = <<>>
    /\ yielded' = <<>>
    /\ genCalls' = 0
    /\ GenReset
    /\ sClosed' = FALSE
    /\ UNCHANGED <<storeVars, queryVars, chunkVars, concVars, callVars>>

NextCancel ==
    \/ NextGen
    \/ StreamCreate
    \/ StreamStart
    \/ StreamClose
    \/ StreamDiscard


(***************************************************************************)
(* FAISSVectorStore, faiss_store.py                                        *)
(*                                                                         *)
(* Vectors are plane vectors given by a direction (a multiple of 60        *)
(* degrees) and a length; the store's dimension is 2.  A score is the      *)
(* inner product times 100.                                                *)
(***************************************************************************)
\* Entries the store may hold, vectors and texts one add_vectors call may
\* carry.
MaxStore == 3
MaxBatch == 2

\* config.EMBEDDING_DIMENSION as the model has it (plane vectors).
Dim == 2

Vec(d, ang, mag) == [d |-> d, ang |-> ang, mag |-> mag]

SeqsUpTo(S, n) == UNION {[1..k -> S] : k \in 0..n}

\* The embeddings callers pass: two vectors of the store's dimension (one
\* of them not of unit length) and one of a different dimension.
GoodEmbeddings == {Vec(Dim, 0, 1), Vec(Dim, 2, 2)}
BadEmbedding == Vec(Dim + 1, 0, 1)

\* The embedding lists of the model: every list of good vectors, a list of
\* the wrong dimension, and ragged lists.
EmbeddingLists ==
    SeqsUpTo(GoodEmbeddings, MaxBatch)
        \cup {<<BadEmbedding>>}
        \cup {<<g, BadEmbedding>> : g \in GoodEmbeddings}

\* The text lists of the model: the first n chunks of a document whose
\* chunks alternate between two texts.
ChunkText(i) == IF i % 2 = 1 THEN "alef" ELSE "ba  ba"
TextLists == {[i \in 1..n |-> ChunkText(i)] : n \in 0..MaxBatch}

\* The metadata lists of the model: n dicts naming the source.
MetaLists == {[i \in 1..n |-> [source |-> "doc"]] : n \in 0..MaxBatch}

\* Mutant of normalize_L2: the vector is left as it is.
normalize_L2_skipped(v) == v

\* faiss.normalize_L2: scale to unit length, a zero vector stays zero.
normalize_L2(v) == [v EXCEPT !.mag = IF v.mag = 0 THEN 0 ELSE 1]

\* 100 * cos(k * 60 degrees)
Cos100(k) == <<100, 50, -50, -100, -50, 50>>[(k % 6) + 1]

\* IndexFlatIP: the inner product of two vectors (times 100).
InnerProduct(u, v) == u.mag * v.mag * Cos100(u.ang - v.ang)

EmptyIndex(d) == [d |-> d, vecs |-> <<>>]
ntotal == Len(index.vecs)

\* str(k) and int(s) of the JSON object keys: decimal digits.
RECURSIVE str(_)
str(k) == IF k < 10 THEN <<k>> ELSE Append(str(k \div 10), k % 10)

RECURSIVE int(_)
int(ds) == IF Len(ds) = 1 THEN ds[1]
           ELSE 10 * int(SubSeq(ds, 1, Len(ds) - 1)) + ds[Len(ds)]

\* What lastCall records: the method, whether it raised, for add_vectors
\* the number of embeddings passed, for load which files it found.
Call(op, raised, n, index_found, meta_found) ==
    [op |-> op, raised |-> raised, n |-> n,
     index_found |-> index_found, meta_found |-> meta_found]

\* Mutant of LengthsMatch: the length of texts is not compared.
LengthsMatchNoTexts(embeddings, txts, metas) ==
    ~(Len(embeddings) # Len(metas))

\* Line 55: the three lists must have the same length.
LengthsMatch(embeddings, txts, metas) ==
    ~(Len(embeddings) # Len(metas) \/ Len(embeddings) # Len(txts))

\* Lines 59-60: np.array(...).astype('float32') needs rows of one length,
\* and normalize_L2 reads shape[1], which an empty array does not have.
ArrayOk(embeddings) ==
    /\ Len(embeddings) > 0
    /\ \A i \in 1..Len(embeddings) : embeddings[i].d = embeddings[1].d

\* index.add asserts that the vectors have the dimension of the index.
IndexAddOk(embeddings) == embeddings[1].d = index.d

\* Mutant of NewEntries: the ids are counted from 0 in every call.
NewEntriesFromZero(start_id, txts, metas) ==
    [i \in 1..Min(Len(txts), Len(metas)) |->
        [id |-> i - 1, text |-> txts[i], source |-> metas[i].source]]

\* Lines 69-75: the entries zip(texts, metadata) produces.
NewEntries(start_id, txts, metas) ==
    [i \in 1..Min(Len(txts), Len(metas)) |->
        [id |-> start_id + i - 1, text |-> txts[i], source |-> metas[i].source]]

\* Mutant of add_vectors: the vectors are inserted before the lists are
\* validated, so a call that raises has already changed the index.
add_vectors_insert_first(embeddings, txts, metas) ==
    IF ~LengthsMatch(embeddings, txts, metas)
       \/ ~ArrayOk(embeddings)
       \/ ~IndexAddOk(embeddings)
    THEN /\ index' = [index EXCEPT !.vecs =
                         @ \o [i \in 1..Len(embeddings) |->
                                  normalize_L2(embeddings[i])]]
         /\ lastCall' = Call("add_vectors", TRUE, Len(embeddings), FALSE, FALSE)
         /\ UNCHANGED <<texts, metadata, id_to_metadata, assigned_ids>>
    ELSE LET start_id == ntotal
             new == NewEntries(start_id, txts, metas)
             newIds == {new[i].id : i \in 1..Len(new)}
         IN /\ index' = [index EXCEPT !.vecs =
                            @ \o [i \in 1..Len(embeddings) |->
                                     normalize_L2(embeddings[i])]]
            /\ texts' = texts \o [i \in 1..Len(new) |-> new[i].text]
            /\ metadata' = metadata \o new
            /\ id_to_metadata' =
                  [k \in DOMAIN id_to_metadata \cup newIds |->
                      IF k \in newIds
                      THEN new[CHOOSE i \in 1..Len(new) : new[i].id = k]
                      ELSE id_to_metadata[k]]
            /\ assigned_ids' = assigned_ids \cup newIds
            /\ lastCall' = Call("add_vectors", FALSE, Len(embeddings), FALSE, FALSE)

\* add_vectors, lines 46-77.
add_vectors(embeddings, txts, metas) ==
    IF ~LengthsMatch(embeddings, txts, metas)
       \/ ~ArrayOk(embeddings)
       \/ ~IndexAddOk(embeddings)
    THEN \* ValueError, or numpy / faiss reject the array
         /\ lastCall' = Call("add_vectors", TRUE, Len(embeddings), FALSE, FALSE)
         /\ UNCHANGED <<index, texts, metadata, id_to_metadata, assigned_ids>>
    ELSE LET start_id == ntotal
             new == NewEntries(start_id, txts, metas)
             newIds == {new[i].id : i \in 1..Len(new)}
         IN /\ index' = [index EXCEPT !.vecs =
                            @ \o [i \in 1..Len(embeddings) |->
                                     normalize_L2(embeddings[i])]]
            /\ texts' = texts \o [i \in 1..Len(new) |-> new[i].text]
            /\ metadata' = metadata \o new
            /\ id_to_metadata' =
                  [k \in DOMAIN id_to_metadata \cup newIds |->
                      IF k \in newIds
                      THEN new[CHOOSE i \in 1..Len(new) : new[i].id = k]
                      ELSE id_to_metadata[k]]
            /\ assigned_ids' = assigned_ids \cup newIds
            /\ lastCall' = Call("add_vectors", FALSE, Len(embeddings), FALSE, FALSE)

AddVectors ==
    /\ \E embeddings \in EmbeddingLists,
          txts \in TextLists,
          metas \in MetaLists :
        /\ ntotal + Len(embeddings) <= MaxStore
        /\ Len(texts) + Len(txts) <= MaxStore
        /\ Len(metadata) + Len(metas) <= MaxStore
        /\ add_vectors(embeddings, txts, metas)
    /\ UNCHANGED <<dimension, hasPaths, disk_index, disk_meta>>
    /\ UNCHANGED <<genVars, streamVars, queryVars, chunkVars, pipeVars>>

\* The query vectors of the model.
Queries == {Vec(Dim, 0, 1), Vec(Dim, 1, 2), Vec(Dim, 2, 1), Vec(Dim, 3, 1)}

\* The object a method is called on, as far as search reads it.
Self == [index |-> index, metadata |-> metadata]

\* Mutant of Before: the entries are ranked by position, not by score.
BeforeByPosition(self, q, a, b) == a < b

\* Whether entry a is ranked before entry b for query q: higher score
\* first, the lower position first among equal scores (the order faiss's
\* flat index returns equal scores in).
Before(self, q, a, b) ==
    LET sa == InnerProduct(q, self.index.vecs[a])
        sb == InnerProduct(q, self.index.vecs[b])
    IN sa > sb \/ (sa = sb /\ a < b)

\* self.index.search: the positions (1-based) of the k best entries.
RECURSIVE Ranked(_, _, _, _)
Ranked(self, q, k, left) ==
    IF k = 0 \/ left = {} THEN <<>>
    ELSE LET best == CHOOSE a \in left :
                         \A b \in left \ {a} : Before(self, q, a, b)
         IN <<best>> \o Ranked(self, q, k - 1, left \ {best})

\* Lines 101-109: hits whose position has no metadata are skipped.
RECURSIVE Gather(_, _, _)
Gather(self, q, hits) ==
    IF hits = <<>> THEN <<>>
    ELSE LET idx == Head(hits)
             rest == Gather(self, q, Tail(hits))
         IN IF idx - 1 < 0 \/ idx - 1 >= Len(self.metadata) THEN rest
            ELSE <<[id |-> self.metadata[idx].id,
                    text |-> self.metadata[idx].text,
                    source |-> self.metadata[idx].source,
                    score |-> InnerProduct(q, self.index.vecs[idx])]>> \o rest

\* search, lines 79-112.
search(self, query_embedding, top_k) ==
    LET n == Len(self.index.vecs)
    IN IF n = 0 THEN <<>>
       ELSE LET q == normalize_L2(query_embedding)
            IN Gather(self, q, Ranked(self, q, Min(top_k, n), 1..n))

\* search reads the store and changes nothing.
Search ==
    /\ \E q \in Queries, k \in 1..MaxStore :
          Len(search(Self, q, k)) <= MaxStore
    /\ UNCHANGED vars

\* save, lines 114-129.
Save ==
    /\ IF hasPaths
       THEN /\ disk_index' = [exists |-> TRUE, index |-> index]
            /\ disk_meta' =
                 [exists |-> TRUE,
                  metadata |-> metadata,
                  id_to_metadata |->
                     {<<str(k), id_to_metadata[k]>> : k \in DOMAIN id_to_metadata}]
       ELSE UNCHANGED <<disk_index, disk_meta>>
    /\ lastCall' = Call("save", FALSE, 0, FALSE, FALSE)
    /\ UNCHANGED <<dimension, hasPaths, index, texts, metadata, id_to_metadata,
                   assigned_ids>>
    /\ UNCHANGED <<genVars, streamVars, queryVars, chunkVars, pipeVars>>

\* Line 143: the keys of the JSON object become ints again.
load_id_to_metadata(data) ==
    [k \in {int(e[1]) : e \in data.id_to_metadata} |->
        (CHOOSE e \in data.id_to_metadata : int(e[1]) = k)[2]]

\* Mutant of load_texts: the texts are not rebuilt.
load_texts_not_rebuilt(data) == <<>>

\* Line 145: texts is rebuilt from the metadata.
load_texts(data) == [i \in 1..Len(data.metadata) |-> data.metadata[i].text]

\* load, lines 131-148.
Load ==
    LET index_found == hasPaths /\ disk_index.exists
        meta_found == hasPaths /\ disk_meta.exists
    IN /\ index' = IF index_found THEN disk_index.index ELSE index
       /\ IF meta_found
          THEN /\ metadata' = disk_meta.metadata
               /\ id_to_metadata' = load_id_to_metadata(disk_meta)
               /\ texts' = load_texts(disk_meta)
               /\ assigned_ids' = assigned_ids \cup
                     {disk_meta.metadata[i].id :
                         i \in 1..Len(disk_meta.metadata)}
          ELSE UNCHANGED <<metadata, id_to_metadata, texts, assigned_ids>>
       /\ lastCall' = Call("load", FALSE, 0, index_found, meta_found)
       /\ UNCHANGED <<dimension, hasPaths, disk_index, disk_meta>>
       /\ UNCHANGED <<genVars, streamVars, queryVars, chunkVars, pipeVars>>

\* clear, lines 158-163.
Clear ==
    /\ index' = EmptyIndex(dimension)
    /\ metadata' = <<>>
    /\ id_to_metadata' = <<>>
    /\ lastCall' = Call("clear", FALSE, 0, FALSE, FALSE)
    /\ UNCHANGED <<dimension, hasPaths, texts, disk_index, disk_meta,
                   assigned_ids>>
    /\ UNCHANGED <<genVars, streamVars, queryVars, chunkVars, pipeVars>>

\* A new process constructs a fresh store (__init__, lines 23-44); the
\* files stay.
Restart ==
    /\ index' = EmptyIndex(dimension)
    /\ texts' = <<>>
    /\ metadata' = <<>>
    /\ id_to_metadata' = <<>>
    /\ lastCall' = Call("init", FALSE, 0, FALSE, FALSE)
    /\ assigned_ids' = {}
    /\ UNCHANGED <<dimension, hasPaths, disk_index, disk_meta>>
    /\ UNCHANGED <<genVars, streamVars, queryVars, chunkVars, pipeVars>>

StoreInit ==
    /\ dimension = Dim
    /\ index = EmptyIndex(Dim)
    /\ texts = <<>>
    /\ metadata = <<>>
    /\ id_to_metadata = <<>>
    /\ disk_index = [exists |-> FALSE, index |-> EmptyIndex(Dim)]
    /\ disk_meta = [exists |-> FALSE, metadata |-> <<>>, id_to_metadata |-> {}]
    /\ lastCall = Call("init", FALSE, 0, FALSE, FALSE)
    /\ assigned_ids = {}

(***************************************************************************)
(* RetrievalEngine (retriever.py) and RAGPipeline.query (rag_pipeline.py)  *)
(***************************************************************************)
\* RetrievalEngine(top_k=5, min_score=0.3); a score is scaled by 100.
TopK == 5
MinScore == 30

\* format_context's text for an empty result list, and the text query and
\* stream_query compare the context with (transliterated).
NoInfoAvailable == "la tujad ma'lumat mutaha."
NoRelevantInfo == "la tujad ma'lumat dhat sila."
\* The canned answer of query and stream_query.
FallbackAnswer == "'udhran, lam ajid ma'lumat kafiya"
\* What answer_question returns.
GeneratedAnswer == "generated answer"

\* retriever.normalize_arabic_text: NFKC, runs of spaces collapsed, strip.
normalize_arabic_text(t) == IF t = "ba  ba" THEN "ba ba" ELSE t

\* f"{score:.2f}" of a score scaled by 100.
Fmt2(score) ==
    LET a == IF score < 0 THEN -score ELSE score
    IN (IF score < 0 THEN "-" ELSE "") \o ToString(a \div 100) \o "."
          \o ToString((a % 100) \div 10) \o ToString(a % 10)

\* Mutant of retrieve: a hit whose score equals min_score is dropped.
retrieve_strict(query_embedding, top_k, min_score) ==
    SelectSeq(search(Self, query_embedding, top_k),
              LAMBDA r : r.score > min_score)

\* retrieve, lines 61-90, for the query vector embed_query returned.
retrieve(query_embedding, top_k, min_score) ==
    SelectSeq(search(Self, query_embedding, top_k),
              LAMBDA r : r.score >= min_score)

RECURSIVE Join(_, _)
Join(parts, sep) ==
    IF parts = <<>> THEN ""
    ELSE IF Len(parts) = 1 THEN parts[1]
    ELSE parts[1] \o sep \o Join(Tail(parts), sep)

\* format_context, lines 92-117.
format_context(results) ==
    IF results = <<>> THEN NoInfoAvailable
    ELSE Join([i \in 1..Len(results) |->
                  "[masdar " \o ToString(i) \o ": " \o results[i].source
                     \o " (" \o Fmt2(results[i].score) \o ")]\n"
                     \o normalize_arabic_text(results[i].text) \o "\n"],
              "\n")

\* Lines 141 and 201: the test that short-circuits generation.
ShortCircuit(context) == context = "" \/ context = NoRelevantInfo

\* Mutant of Response: the metadata of a source is the whole result.
ResponseAllFields(question, answer, return_context, context, results) ==
    IF return_context
    THEN [question |-> question, answer |-> answer, context |-> context,
          sources |-> [i \in 1..Len(results) |->
                          [text |-> results[i].text,
                           score |-> results[i].score,
                           metadata |-> results[i]]]]
    ELSE [question |-> question, answer |-> answer]

\* Lines 151-165: the response dict.  A result always has text and score
\* (faiss_store.py:72 and 106), so r.get returns them.
Response(question, answer, return_context, context, results) ==
    IF return_context
    THEN [question |-> question, answer |-> answer, context |-> context,
          sources |-> [i \in 1..Len(results) |->
                          [text |-> results[i].text,
                           score |-> results[i].score,
                           metadata |->
                              [k \in DOMAIN results[i] \ {"text", "score"} |->
                                  results[i][k]]]]]
    ELSE [question |-> question, answer |-> answer]

\* query, lines 125-168.  llm is what answer_question does if it is called:
\* it returns an answer or raises.
Query ==
    /\ \E q \in Queries, return_context \in BOOLEAN, llm \in {"answer", "raise"} :
         LET results == retrieve(q, TopK, MinScore)
             context == format_context(results)
             short == ShortCircuit(context)
             raised == ~short /\ llm = "raise"
             answer == IF short THEN FallbackAnswer ELSE GeneratedAnswer
         IN qLast' = [op |-> "query",
                      question |-> q,
                      return_context |-> return_context,
                      results |-> results,
                      context |-> context,
                      llmCalls |-> IF short THEN 0 ELSE 1,
                      raised |-> raised,
                      response |-> IF raised THEN [answer |-> "none"]
                                   ELSE Response(q, answer, return_context,
                                                 context, results)]
    /\ UNCHANGED csGen
    /\ UNCHANGED <<genVars, streamVars, storeVars, chunkVars, pipeVars>>


\* No /chat/stream generator is running.
CsIdle ==
    [pc |-> "idle", q |-> <<>>, pending |-> <<>>, raises |-> FALSE,
     has_content |-> FALSE,
     error_sent |-> FALSE, frames |-> <<>>, fallbacks |-> 0]

QueryInit ==
    /\ qLast = [op |-> "none"]
    /\ csGen = CsIdle

(***************************************************************************)
(* TextChunker, text_chunker.py                                            *)
(*                                                                         *)
(* A text is the sequence of the lengths of its pieces: the stripped,      *)
(* non-empty stretches between sentence endings (an ending mark followed   *)
(* by one blank).  A string built from the text is a sequence of items:    *)
(* i > 0 stands for piece i, 0 for one blank.                              *)
(***************************************************************************)
\* Pieces one text has at most.
MaxSentences == 4

\* config.py: CHUNK_SIZE, CHUNK_OVERLAP, MIN_CHUNK_SIZE (also the defaults
\* of TextChunker.__init__).
CHUNK_SIZE == 512
CHUNK_OVERLAP == 128
MIN_CHUNK_SIZE == 100
\* len(s) >= 10: shorter pieces are not sentences.
MinSentenceLen == 10
\* The length of what re.split removes between two pieces: the mark and
\* one blank.
SentenceEndLen == 2

\* The configurations of the model: the defaults, chunk_size=100 and
\* overlap=30 with the default min_chunk_size, and the same with a small
\* min_chunk_size.
DefaultConfig ==
    [chunk_size |-> CHUNK_SIZE, overlap |-> CHUNK_OVERLAP,
     min_chunk_size |-> MIN_CHUNK_SIZE]
ScenarioConfig ==
    [chunk_size |-> 100, overlap |-> 30, min_chunk_size |-> MIN_CHUNK_SIZE]
SmallConfig == [chunk_size |-> 100, overlap |-> 30, min_chunk_size |-> 20]
Configs == {DefaultConfig, ScenarioConfig, SmallConfig}

\* The lengths a piece of text can have.
PieceLens == {5, 12, 20, 33, 60, 130, 520}
Texts == SeqsUpTo(PieceLens, MaxSentences)

RECURSIVE Sum(_)
Sum(lens) == IF lens = <<>> THEN 0 ELSE Head(lens) + Sum(Tail(lens))

\* len(s) of a string built from the pieces of text.
StrLen(text, s) ==
    Sum([j \in 1..Len(s) |-> IF s[j] = 0 THEN 1 ELSE text[s[j]]])

\* s.strip(): the blanks at both ends are removed.
RECURSIVE strip(_)
strip(s) ==
    IF s = <<>> THEN <<>>
    ELSE IF Head(s) = 0 THEN strip(Tail(s))
    ELSE IF s[Len(s)] = 0 THEN strip(SubSeq(s, 1, Len(s) - 1))
    ELSE s

\* len(text.strip()) of the whole text.
TextLen(text) ==
    IF text = <<>> THEN 0
    ELSE Sum(text) + SentenceEndLen * (Len(text) - 1)

\* _split_into_sentences, lines 89-110: the pieces of at least 10
\* characters, in order.
split_into_sentences(text) ==
    SelectSeq([i \in 1..Len(text) |-> i],
              LAMBDA i : text[i] >= MinSentenceLen)

\* The loop of _get_overlap_text, lines 123-127, over the sentences not yet
\* visited (the last one is visited first).
RECURSIVE OverlapLoop(_, _, _, _)
OverlapLoop(cfg, text, sentences, overlap_text) ==
    IF sentences = <<>> THEN overlap_text
    ELSE LET sentence == sentences[Len(sentences)]
         IN IF StrLen(text, overlap_text) + text[sentence] <= cfg.overlap
            THEN OverlapLoop(cfg, text,
                             SubSeq(sentences, 1, Len(sentences) - 1),
                             <<sentence, 0>> \o overlap_text)
            ELSE overlap_text

\* Mutant of get_overlap_text: the last sentence is always taken.
get_overlap_text_last(cfg, text, sentences) ==
    IF sentences = <<>> THEN <<>> ELSE <<sentences[Len(sentences)]>>

\* _get_overlap_text, lines 112-129.
get_overlap_text(cfg, text, sentences) ==
    strip(OverlapLoop(cfg, text, sentences, <<>>))

\* Mutant of Chunk: the sentences list holds the sentences of the seed too.
ChunkSentencesWithSeed(current_chunk, chunks, current_chunk_sentences) ==
    [text |-> strip(current_chunk),
     chunk_id |-> Len(chunks),
     sentences |-> SelectSeq(current_chunk, LAMBDA item : item # 0)]

\* Lines 62-67 and 79-84: the chunk dict.
Chunk(current_chunk, chunks, current_chunk_sentences) ==
    [text |-> strip(current_chunk),
     chunk_id |-> Len(chunks),
     sentences |-> current_chunk_sentences]

\* Lines 58-87: the loop over the sentences and the final chunk.
RECURSIVE ChunkLoop(_, _, _, _, _, _)
ChunkLoop(cfg, text, sentences, chunks, current_chunk, current_chunk_sentences) ==
    IF sentences = <<>>
    THEN IF strip(current_chunk) # <<>>
            /\ StrLen(text, strip(current_chunk)) >= cfg.min_chunk_size
         THEN Append(chunks,
                     Chunk(current_chunk, chunks, current_chunk_sentences))
         ELSE chunks
    ELSE LET sentence == Head(sentences)
         IN IF StrLen(text, current_chunk) + text[sentence] > cfg.chunk_size
               /\ current_chunk # <<>>
            THEN ChunkLoop(cfg, text, Tail(sentences),
                     Append(chunks, Chunk(current_chunk, chunks,
                                          current_chunk_sentences)),
                     get_overlap_text(cfg, text, current_chunk_sentences)
                         \o <<0, sentence>>,
                     <<sentence>>)
            ELSE ChunkLoop(cfg, text, Tail(sentences), chunks,
                     current_chunk \o <<0, sentence>>,
                     Append(current_chunk_sentences, sentence))

\* chunk_text, lines 36-87.
chunk_text(cfg, text) ==
    IF text = <<>> \/ TextLen(text) < cfg.min_chunk_size THEN <<>>
    ELSE ChunkLoop(cfg, text, split_into_sentences(text), <<>>, <<>>, <<>>)

ChunkInit ==
    /\ cLast = [op |-> "none"]
    /\ chunker = DefaultConfig
    /\ cEarlier = [op |-> "none"]

\* chunk_document calls chunk_text on the text of a file, with a chunker
\* of some configuration.
ChunkTextCall ==
    /\ cLast.op = "none"
    /\ \E cfg \in Configs, text \in Texts :
          cLast' = [op |-> "chunk_text", cfg |-> cfg, text |-> text,
                    chunks |-> chunk_text(cfg, text)]
    /\ UNCHANGED <<chunker, cEarlier>>
    /\ UNCHANGED <<genVars, streamVars, storeVars, queryVars, pipeVars>>

\* chunk_document returns the chunks to its caller.
ChunkReturn ==
    /\ cLast.op = "chunk_text"
    /\ cLast' = [op |-> "none"]
    /\ UNCHANGED <<chunker, cEarlier>>
    /\ UNCHANGED <<genVars, streamVars, storeVars, queryVars, pipeVars>>

NextChunk ==
    \/ ChunkTextCall
    \/ ChunkReturn


(***************************************************************************)
(* RAGPipeline.index_documents, rag_pipeline.py:64-92                      *)
(***************************************************************************)
\* The directories of the model: one that does not exist, one without
\* text, and documents of one and of two chunks.
Dirs == {"missing", "empty", "one", "two"}

\* chunk_directory (text_chunker.py:155-191): the chunk texts and one
\* metadata dict per chunk.
chunk_directory(dir) ==
    LET n == CASE dir = "one" -> 1 [] dir = "two" -> 2 [] OTHER -> 0
    IN [texts |-> [i \in 1..n |-> ChunkText(i)],
        metadata |-> [i \in 1..n |-> [source |-> "doc"]]]

\* How embed_texts fares.
\*   ok         : every text is encoded
\*   zero_last  : encoding the last text fails twice; it gets the zero
\*                vector of config.EMBEDDING_DIMENSION entries (line 92)
\*   wrong_dim  : the model's vectors do not have the store's dimension
\*   ragged     : wrong_dim, and the last text gets the zero vector
EmbedOutcomes == {"ok", "zero_last", "wrong_dim", "ragged"}

ZeroEmbedding == Vec(Dim, 0, 0)

\* model.encode of chunk i.
Encode(i) == IF i % 2 = 1 THEN Vec(Dim, 0, 1) ELSE Vec(Dim, 2, 2)

\* embed_texts, gemini_embeddings.py:53-95: it never raises.
embed_texts(chunks, how) ==
    [i \in 1..Len(chunks) |->
        IF how \in {"zero_last", "ragged"} /\ i = Len(chunks)
        THEN ZeroEmbedding
        ELSE IF how \in {"wrong_dim", "ragged"}
        THEN [Encode(i) EXCEPT !.d = Dim + 1]
        ELSE Encode(i)]

\* What iLast records of a call.
Indexed(dir, how, raised, before) ==
    [op |-> "index_documents", dir |-> dir, how |-> how, raised |-> raised,
     before |-> before]

\* index_documents, lines 64-92.
IndexDocuments ==
    /\ \E dir \in Dirs, how \in EmbedOutcomes :
         LET chunks == chunk_directory(dir)
             vectors == embed_texts(chunks.texts, how)
         IN IF dir = "missing"
            THEN \* FileNotFoundError, line 75
                 /\ iLast' = Indexed(dir, how, TRUE, ntotal)
                 /\ UNCHANGED <<index, texts, metadata, id_to_metadata,
                                lastCall, assigned_ids>>
            ELSE IF chunks.texts = <<>>
            THEN \* lines 81-83
                 /\ iLast' = Indexed(dir, how, FALSE, ntotal)
                 /\ UNCHANGED <<index, texts, metadata, id_to_metadata,
                                lastCall, assigned_ids>>
            ELSE /\ ntotal + Len(vectors) <= MaxStore
                 /\ add_vectors(vectors, chunks.texts, chunks.metadata)
                 /\ iLast' = Indexed(dir, how, lastCall'.raised, ntotal)
    /\ UNCHANGED <<dimension, hasPaths, disk_index, disk_meta>>
    /\ UNCHANGED <<genVars, streamVars, queryVars, chunkVars>>
    /\ UNCHANGED <<cancelVars, concVars, sqLast, aLast>>

NextIndex ==
    \/ IndexDocuments
    \/ Search

(***************************************************************************)
(* RAGPipeline.stream_query, rag_pipeline.py:183-213                       *)
(***************************************************************************)
\* Mutant of StreamShortCircuit: the context is compared with the text
\* format_context returns for an empty result list.
StreamShortCircuitOnEmpty(context) == context = "" \/ context = NoInfoAvailable

\* Line 201: the test that short-circuits generation in stream_query.
StreamShortCircuit(context) == context = "" \/ context = NoRelevantInfo

\* What stream_answer_question does while stream_query pulls it to its
\* end: it yields n fragments (each non-empty: stream_generate yields
\* only non-empty content and results) and then ends or raises.
StreamRuns == [n : 0..MaxLines, raised : BOOLEAN]
Fragment == "fragment"

\* stream_query pulled to its end for the query vector embed_query
\* returned: what it retrieved, what it yielded and whether it raised.
stream_query(q, run) ==
    LET results == retrieve(q, TopK, MinScore)
        context == format_context(results)
        short == StreamShortCircuit(context)
    IN [results |-> results,
        context |-> context,
        llmCalls |-> IF short THEN 0 ELSE 1,
        fragments |-> IF short THEN <<FallbackAnswer>>
                      ELSE [i \in 1..run.n |-> Fragment],
        raised |-> ~short /\ run.raised]

StreamQuery ==
    /\ sqLast.op = "none"
    /\ \E q \in Queries, run \in StreamRuns :
         LET r == stream_query(q, run)
         IN sqLast' = [op |-> "stream_query",
                       q |-> q,
                       results |-> r.results,
                       context |-> r.context,
                       llmCalls |-> r.llmCalls,
                       fragments |-> r.fragments,
                       raised |-> r.raised]
    /\ UNCHANGED <<genVars, streamVars, storeVars, queryVars, chunkVars>>
    /\ UNCHANGED <<cancelVars, concVars, iLast, aLast>>

\* The consumer has read the stream to its end and drops the generator.
StreamQueryReturn ==
    /\ sqLast.op = "stream_query"
    /\ sqLast' = [op |-> "none"]
    /\ UNCHANGED <<genVars, streamVars, storeVars, queryVars, chunkVars>>
    /\ UNCHANGED <<cancelVars, concVars, iLast, aLast>>

\* add_vectors between two questions.
PipeAddVectors == sqLast.op = "none" /\ AddVectors

\* The pipeline's store is filled through add_vectors; questions are
\* asked through stream_query, one after the other.
NextPipe ==
    \/ PipeAddVectors
    \/ StreamQuery
    \/ StreamQueryReturn

(***************************************************************************)
(* The HTTP boundary, backend/api.py                                       *)
(***************************************************************************)
\* str(e) of the exception a failing generation or indexing call raises.
ExcText == "500 Server Error: Internal Server Error for url: ..."
\* The message of the error frame, lines 240 and 253 (transliterated).
GenericError == "'udhran, hadatha khata' athna' mu'alajat as-su'al"

\* What answer_question does if query calls it: it returns an answer, it
\* returns an empty answer, or it raises.
LlmOutcomes == {"answer", "empty", "raise"}

\* query (rag_pipeline.py:125-168) as the handlers call it: whether it
\* called answer_question, whether it raised, and the answer of its
\* response.
query(q, llm) ==
    LET results == retrieve(q, TopK, MinScore)
        context == format_context(results)
        short == ShortCircuit(context)
    IN [llmCalls |-> IF short THEN 0 ELSE 1,
        raised |-> ~short /\ llm = "raise",
        answer |-> IF short THEN FallbackAnswer
                   ELSE IF llm = "answer" THEN GeneratedAnswer ELSE ""]

\* A response: for an HTTPException the parts of its detail, for /chat
\* the answer, for /chat/stream the frames.  question and indexed record
\* the request: whether the question was non-blank and whether the store
\* held texts.
Http(endpoint, status, detail, answer, frames) ==
    [endpoint |-> endpoint, status |-> status, detail |-> detail,
     answer |-> answer, frames |-> frames]

ContentFrame(chunk) == [type |-> "content", text |-> chunk]
ErrorFrame == [type |-> "error", text |-> GenericError]
DoneFrame == [type |-> "done", text |-> "[DONE]"]

\* Lines 217-225: one content frame per non-empty chunk.
ContentFrames(fragments) ==
    [i \in 1..Len(SelectSeq(fragments, LAMBDA c : c # "")) |->
        ContentFrame(SelectSeq(fragments, LAMBDA c : c # "")[i])]

\* Mutant of ErrorTail: the end marker is not sent after an error.
ErrorTailWithoutDone(error_sent) ==
    IF ~error_sent THEN <<ErrorFrame>> ELSE <<>>

\* Lines 249-257: the except clause of the generator.
ErrorTail(error_sent) ==
    (IF ~error_sent THEN <<ErrorFrame>> ELSE <<>>) \o <<DoneFrame>>

\* Lines 228-243: the fallback to the regular query.
FallbackFrames(fb) ==
    IF fb.raised THEN <<ErrorFrame>>
    ELSE IF fb.answer # "" THEN <<ContentFrame(fb.answer)>>
    ELSE <<>>

\* The generator of chat_stream, lines 210-257: sq is what stream_query
\* does, fb what the fallback query does if it is called.
chat_stream_generate(sq, fb) ==
    LET content == ContentFrames(sq.fragments)
    IN IF sq.raised THEN content \o ErrorTail(FALSE)
       ELSE IF content = <<>> THEN FallbackFrames(fb) \o <<DoneFrame>>
       ELSE content \o <<DoneFrame>>

\* The checks both chat handlers start with, lines 162-169 and 201-208.
Rejected(endpoint, blank) ==
    IF blank
    THEN Http(endpoint, 400, <<"Question cannot be empty">>, "", <<>>)
    ELSE Http(endpoint, 400,
              <<"No documents indexed - use /index endpoint first">>, "", <<>>)

\* What aLast records: the response and the request it answers.
Answered(response, blank) ==
    [response |-> response, blank |-> blank, indexed |-> Len(texts) # 0]

\* chat, lines 148-184.
Chat ==
    /\ \E blank \in BOOLEAN, q \in Queries, llm \in LlmOutcomes :
         LET r == query(q, llm)
         IN aLast' = Answered(
               IF blank \/ Len(texts) = 0 THEN Rejected("/chat", blank)
               ELSE IF r.raised
               THEN Http("/chat", 500,
                         <<"Error processing question: ", ExcText>>, "", <<>>)
               ELSE Http("/chat", 200, <<>>, r.answer, <<>>),
               blank)
    /\ UNCHANGED <<genVars, streamVars, storeVars, queryVars, chunkVars>>
    /\ UNCHANGED <<cancelVars, concVars, iLast, sqLast>>

\* chat_stream, lines 187-268, with its generator consumed to the end.
ChatStream ==
    /\ \E blank \in BOOLEAN, q \in Queries, run \in StreamRuns,
          llm \in LlmOutcomes :
         aLast' = Answered(
               IF blank \/ Len(texts) = 0 THEN Rejected("/chat/stream", blank)
               ELSE Http("/chat/stream", 200, <<>>, "",
                         chat_stream_generate(stream_query(q, run),
                                              query(q, llm))),
               blank)
    /\ UNCHANGED <<genVars, streamVars, storeVars, queryVars, chunkVars>>
    /\ UNCHANGED <<cancelVars, concVars, iLast, sqLast>>

\* str(e) of the HTTPException raised at line 290.
DirNotFoundText == "400: Text directory not found: missing"

\* index_documents of the API, lines 271-315: the directory check, the
\* pipeline's index_documents, save_index and the response.
ApiIndex ==
    /\ \E dir \in Dirs, how \in EmbedOutcomes :
         LET chunks == chunk_directory(dir)
             vectors == embed_texts(chunks.texts, how)
         IN IF dir = "missing"
            THEN \* the HTTPException of line 290 is caught at line 313
                 /\ aLast' = Answered(Http("/index", 500,
                                  <<"Error indexing: ", DirNotFoundText>>,
                                  "", <<>>), FALSE)
                 /\ UNCHANGED storeVars
            ELSE /\ IF chunks.texts = <<>>
                    THEN /\ lastCall' = Call("save", FALSE, 0, FALSE, FALSE)
                         /\ UNCHANGED <<index, texts, metadata,
                                        id_to_metadata, assigned_ids>>
                    ELSE /\ ntotal + Len(vectors) <= MaxStore
                         /\ add_vectors(vectors, chunks.texts, chunks.metadata)
                 /\ IF lastCall'.raised
                    THEN /\ aLast' = Answered(Http("/index", 500,
                                         <<"Error indexing: ", ExcText>>,
                                         "", <<>>), FALSE)
                         /\ UNCHANGED <<hasPaths, disk_index, disk_meta>>
                    ELSE /\ aLast' = Answered(Http("/index", 200, <<>>,
                                                   "", <<>>), FALSE)
                         /\ hasPaths' = TRUE
                         /\ disk_index' = [exists |-> TRUE, index |-> index']
                         /\ disk_meta' =
                              [exists |-> TRUE,
                               metadata |-> metadata',
                               id_to_metadata |->
                                  {<<str(k), id_to_metadata'[k]>> :
                                       k \in DOMAIN id_to_metadata'}]
                 /\ UNCHANGED dimension
    /\ UNCHANGED <<genVars, streamVars, queryVars, chunkVars>>
    /\ UNCHANGED <<cancelVars, concVars, iLast, sqLast>>

NextApi ==
    \/ ApiIndex
    \/ Chat
    \/ ChatStream

(***************************************************************************)
(* Concurrent requests, backend/api.py                                     *)
(*                                                                         *)
(* The handlers are coroutines (async def) of one event loop.  A handler   *)
(* that has been given the loop keeps it until it awaits or ends; chat and *)
(* index_documents contain no await, the generator of chat_stream gives    *)
(* the loop back where it yields a frame.                                  *)
(***************************************************************************)
\* Requests in flight at the same time.
MaxTasks == 2
Tasks == 1..MaxTasks

Endpoints == {"index", "chat", "chat_stream"}

IdleTask == [kind |-> "none", pc |-> "idle", start_id |-> 0, seen |-> <<>>]

\* Mutant of Releases: the handlers run in threads that the scheduler may
\* switch between any two steps.
ReleasesAnywhere(kind, pc) == TRUE

\* Whether a handler that has reached pc gives the event loop back: when it
\* has ended, and at the yield of chat_stream's generator (line 225).
Releases(kind, pc) == pc = "idle" \/ (kind = "chat_stream" /\ pc = "frame")

\* A step of task t: the loop is free or t has it.
Runs(t) == loopOwner \in {0, t}

\* The task after the step, and who has the loop then.
Step(t, new) ==
    /\ tasks' = [tasks EXCEPT ![t] = new]
    /\ loopOwner' = IF Releases(new.kind, new.pc) THEN 0 ELSE t

\* A request arrives; its handler waits for the loop.
Arrive ==
    /\ \E t \in Tasks, kind \in Endpoints :
          /\ tasks[t].pc = "idle"
          /\ tasks' = [tasks EXCEPT ![t] = [IdleTask EXCEPT !.kind = kind,
                                                            !.pc = "start"]]
    /\ UNCHANGED <<loopOwner, cancelVars, callVars>>
    /\ UNCHANGED <<genVars, streamVars, storeVars, queryVars, chunkVars>>

\* The document of the model: one chunk and its embedding.
DocEmbeddings == <<Vec(Dim, 0, 1)>>
DocTexts == <<ChunkText(1)>>
DocMetas == <<[source |-> "doc"]>>

\* /index up to self.index.add(vectors): api.py:282-298,
\* rag_pipeline.py:71-91, faiss_store.py:55-66.
IndexAddVectors ==
    /\ \E t \in Tasks :
          /\ Runs(t)
          /\ tasks[t].kind = "index" /\ tasks[t].pc = "start"
          /\ ntotal + Len(DocEmbeddings) <= MaxStore
          /\ Len(metadata) + Len(DocMetas) <= MaxStore
          /\ LengthsMatch(DocEmbeddings, DocTexts, DocMetas)
          /\ ArrayOk(DocEmbeddings) /\ IndexAddOk(DocEmbeddings)
          /\ index' = [index EXCEPT !.vecs =
                          @ \o [i \in 1..Len(DocEmbeddings) |->
                                   normalize_L2(DocEmbeddings[i])]]
          /\ Step(t, [tasks[t] EXCEPT !.pc = "added_vectors",
                                      !.start_id = ntotal])
    /\ UNCHANGED <<dimension, hasPaths, texts, metadata, id_to_metadata,
                   disk_index, disk_meta, lastCall, assigned_ids>>
    /\ UNCHANGED <<genVars, streamVars, queryVars, chunkVars, cancelVars, callVars>>

\* The loop over zip(texts, metadata): faiss_store.py:69-77.
IndexAddMeta ==
    /\ \E t \in Tasks :
          /\ Runs(t)
          /\ tasks[t].kind = "index" /\ tasks[t].pc = "added_vectors"
          /\ LET new == NewEntries(tasks[t].start_id, DocTexts, DocMetas)
                 newIds == {new[i].id : i \in 1..Len(new)}
             IN /\ texts' = texts \o [i \in 1..Len(new) |-> new[i].text]
                /\ metadata' = metadata \o new
                /\ id_to_metadata' =
                      [k \in DOMAIN id_to_metadata \cup newIds |->
                          IF k \in newIds
                          THEN new[CHOOSE i \in 1..Len(new) : new[i].id = k]
                          ELSE id_to_metadata[k]]
                /\ assigned_ids' = assigned_ids \cup newIds
          /\ lastCall' = Call("add_vectors", FALSE, Len(DocEmbeddings), FALSE, FALSE)
          /\ Step(t, [tasks[t] EXCEPT !.pc = "added_meta"])
    /\ UNCHANGED <<dimension, hasPaths, index, disk_index, disk_meta>>
    /\ UNCHANGED <<genVars, streamVars, queryVars, chunkVars, cancelVars, callVars>>

\* pipeline.save_index and the response: api.py:301-311,
\* rag_pipeline.py:94-107, faiss_store.py:114-129.
IndexSave ==
    /\ \E t \in Tasks :
          /\ Runs(t)
          /\ tasks[t].kind = "index" /\ tasks[t].pc = "added_meta"
          /\ Step(t, IdleTask)
    /\ hasPaths' = TRUE
    /\ disk_index' = [exists |-> TRUE, index |-> index]
    /\ disk_meta' =
          [exists |-> TRUE,
           metadata |-> metadata,
           id_to_metadata |->
              {<<str(k), id_to_metadata[k]>> : k \in DOMAIN id_to_metadata}]
    /\ lastCall' = Call("save", FALSE, 0, FALSE, FALSE)
    /\ UNCHANGED <<dimension, index, texts, metadata, id_to_metadata,
                   assigned_ids>>
    /\ UNCHANGED <<genVars, streamVars, queryVars, chunkVars, cancelVars, callVars>>

\* What a search saw of the store.
Seen(results) ==
    <<[ntotal |-> ntotal, nmeta |-> Len(metadata), hits |-> Len(results)]>>

\* /chat and /chat/stream up to the end of retrieve_and_format:
\* api.py:159-175 and 198-217, rag_pipeline.py:139 and 199.
Retrieve ==
    /\ \E t \in Tasks, q \in Queries :
          /\ Runs(t)
          /\ tasks[t].kind \in {"chat", "chat_stream"}
          /\ tasks[t].pc = "start"
          /\ Len(texts) # 0
          /\ Step(t, [tasks[t] EXCEPT
                         !.pc = IF tasks[t].kind = "chat" THEN "retrieved"
                                ELSE "frame",
                         !.seen = Seen(retrieve(q, TopK, MinScore))])
    /\ UNCHANGED <<cancelVars, callVars>>
    /\ UNCHANGED <<genVars, streamVars, storeVars, queryVars, chunkVars>>

\* The handler refuses the request (the store holds no texts), or it
\* answers: the rest of chat, the remaining frames of chat_stream.
Respond ==
    /\ \E t \in Tasks :
          /\ Runs(t)
          /\ \/ tasks[t].pc \in {"retrieved", "frame"}
             \/ /\ tasks[t].kind \in {"chat", "chat_stream"}
                /\ tasks[t].pc = "start"
                /\ Len(texts) = 0
          /\ Step(t, IdleTask)
    /\ UNCHANGED <<cancelVars, callVars>>
    /\ UNCHANGED <<genVars, streamVars, storeVars, queryVars, chunkVars>>

NextConc ==
    \/ Arrive
    \/ IndexAddVectors
    \/ IndexAddMeta
    \/ IndexSave
    \/ Retrieve
    \/ Respond

PipeInit ==
    /\ sClosed = FALSE
    /\ tasks = [t \in Tasks |-> IdleTask]
    /\ loopOwner = 0
    /\ iLast = [op |-> "none"]
    /\ sqLast = [op |-> "none"]
    /\ aLast = [response |-> [endpoint |-> "none"]]

NextStore ==
    \/ AddVectors
    \/ Search
    \/ Save
    \/ Load
    \/ Clear
    \/ Restart


InitGen == GenInit /\ StoreInit /\ hasPaths = FALSE /\ QueryInit
    /\ ChunkInit /\ PipeInit
SpecGen == InitGen /\ [][NextGen]_vars

InitQuery == GenInit /\ StoreInit /\ hasPaths = FALSE /\ QueryInit
    /\ ChunkInit /\ PipeInit

\* The pipeline's store is filled through add_vectors (index_documents).
NextQuery ==
    \/ AddVectors
    \/ Query

SpecQuery == InitQuery /\ [][NextQuery]_vars

\* A store with paths that is filled by add_vectors, saved, and loaded by
\* the instances later processes construct.
InitPersist == GenInit /\ StoreInit /\ hasPaths = TRUE /\ QueryInit
    /\ ChunkInit /\ PipeInit

NextPersist ==
    \/ AddVectors
    \/ Search
    \/ Save
    \/ Restart
    \/ Load

SpecPersist == InitPersist /\ [][NextPersist]_vars

InitChunk == GenInit /\ StoreInit /\ hasPaths = FALSE /\ QueryInit
    /\ ChunkInit /\ PipeInit
SpecChunk == InitChunk /\ [][NextChunk]_vars

InitStore == GenInit /\ StoreInit /\ hasPaths \in BOOLEAN /\ QueryInit
    /\ ChunkInit /\ PipeInit
SpecStore == InitStore /\ [][NextStore]_vars

\* A pipeline whose store is filled by index_documents only.
SpecIndex == InitGen /\ [][NextIndex]_vars

\* A pipeline asked through stream_query.
SpecPipe == InitQuery /\ [][NextPipe]_vars

\* One request after the other at the HTTP boundary.
SpecApi == InitGen /\ [][NextApi]_vars

\* Requests served concurrently by one process.
SpecConc == InitGen /\ [][NextConc]_vars

\* A consumer that may close the generator wherever it is suspended.
SpecCancel == InitGen /\ [][NextCancel]_vars

\* The consumer of a generator keeps pulling until it ends (for chunk in ...),
\* and every HTTP request ends within its timeout (60 s, 120 s), so a step
\* that can be taken is taken.
FairSpecGen == SpecGen /\ WF_vars(NextGen)

(***************************************************************************)
(* Claims about the generation client                                      *)
(***************************************************************************)
StreamEnded == spc \in {"done", "raised"}
StreamActive == spc \in {"loop", "reading", "yielded", "fallback", "yielded_fb"}

\* C2: in stream_generate every 429 response is followed by a backoff delay
\* and a re-issued request, and a call whose max_retries attempts were all
\* answered with 429 raises the last rate-limit error instead of ending
\* normally.
C2_RateLimitExhaustionRaises ==
    /\ \A i \in 1..Len(sLog) :
          sLog[i] = "429" =>
             /\ Len(sWaits) >= i
             /\ i < max_retries => (Len(sLog) > i \/ spc = "loop")
    /\ ( /\ StreamEnded
         /\ Len(sLog) = max_retries
         /\ \A i \in 1..Len(sLog) : sLog[i] = "429" )
       => spc = "raised"

\* C3: in generate an HTTP failure other than 429 reaches the caller after
\* that single request: it is the last request of the call, the call has
\* raised, and no delay was waited after it.
C3_FatalHttpErrorNotRetried ==
    \A i \in 1..Len(gLog) :
        gLog[i] = "http_error" =>
            /\ i = Len(gLog)
            /\ gpc = "raised" \/ (gpc = "idle" /\ spc # "idle")
            /\ Len(gWaits) < i

\* C4: a finished stream_generate call has invoked generate exactly once if
\* the stream reached its end (marker or not) with zero fragments and never
\* otherwise; the result generate returned is then the one and only fragment
\* of the call, and no streaming request follows the fallback.
C4_FallbackOnceYieldsOneFragment ==
    /\ genCalls <= 1
    /\ StreamEnded =>
          /\ genCalls = (IF terminal # "none" /\ chunks_yielded = 0
                         THEN 1 ELSE 0)
          /\ genCalls = 1 => Len(sLog) = attempt + 1
          /\ (genCalls = 1 /\ gResult # "none") =>
                /\ Len(yielded) = 1
                /\ yielded[1].from = "fallback"

\* C5: a stream_generate call that ends without raising has yielded at
\* least one fragment.
C5_NormalEndHasFragment ==
    spc = "done" => Len(yielded) >= 1

\* C6: every stream_generate call terminates: it issues at most max_retries
\* streaming requests, calls generate at most once (itself at most 5
\* requests), and then the generator ends or raises.
C6_StreamTerminatesBounded ==
    /\ [](/\ Len(sLog) <= max_retries
          /\ genCalls <= 1
          /\ Len(gLog) <= StopAttempts)
    /\ (StreamActive ~> StreamEnded)

\* C6 witness: a call that used every streaming attempt and every attempt
\* of the fallback, and ended.
C6_Witness ==
    /\ spc = "done"
    /\ Len(sLog) = max_retries
    /\ genCalls = 1
    /\ Len(gLog) = StopAttempts

\* C20: when three consecutive requests of generate are answered with 429
\* and the fourth with success, generate returns the payload of the
\* fourth, and the delays waited between consecutive attempts grow
\* strictly from one gap to the next and stay under the cap.
C20_BackoffStrictlyIncreasing ==
    (gpc = "returned"
       /\ gLog = <<"http429", "http429", "http429", "ok_text">>) =>
        /\ gResult = "text"
        /\ Len(gWaits) = 3
        /\ \A i \in 1..2 : gWaits[i] < gWaits[i + 1]
        /\ \A i \in 1..3 : gWaits[i] <= RateLimitSleep + WaitMax

\* C21: a request timeout is transient in generate and in stream_generate:
\* a timed-out request that is not the last allowed attempt is followed by
\* a backoff delay and another request, so a timeout reaches the caller
\* only from the last allowed attempt, never on its first occurrence.
C21_TimeoutRetriedLocally ==
    /\ \A i \in 1..Len(gLog) :
          (gLog[i] = "timeout" /\ i < StopAttempts) =>
              /\ Len(gWaits) >= i
              /\ Len(gLog) > i \/ gpc = "request"
    /\ \A i \in 1..Len(sLog) :
          (sLog[i] = "timeout" /\ i < max_retries) =>
              (Len(sLog) > i \/ spc = "loop")

\* C22: once the consumer has closed the generator, at whichever
\* suspension point, no further HTTP request is issued for that call:
\* neither a streaming retry nor a request of the synchronous fallback.
C22_NoRequestAfterClose ==
    [][sClosed => /\ Len(sLog') <= Len(sLog)
                  /\ Len(gLog') <= Len(gLog)
                  /\ genCalls' <= genCalls]_vars

\* C22 witness: a generator closed after a rate-limited attempt, a second
\* request and one fragment of its stream.
C22_Witness ==
    /\ sClosed
    /\ spc = "closed"
    /\ Len(sLog) = 2
    /\ sLog[1] = "429"
    /\ Len(yielded) = 1

\* What the consumer of stream_query gets from the generation client:
\* stream_answer_question and stream_query hand on fragments and
\* exceptions of stream_generate unchanged.
StreamQueryRaised == spc = "raised"
StreamQueryEndedNormally == spc = "done"

\* The last HTTP request of the call ended in an error.
LastRequestFailed ==
    IF genCalls = 1
    THEN gLog # <<>> /\ gLog[Len(gLog)] \notin {"ok_text", "ok_empty"}
    ELSE sLog # <<>> /\ sLog[Len(sLog)] # "200"

\* C30: an error of the generation client while stream_query is served,
\* the error of the synchronous fallback after an empty stream included,
\* reaches the consumer as an error: the stream never ends normally
\* after a request that failed for good.
C30_ClientErrorsPropagate ==
    (StreamQueryEndedNormally /\ gpc = "idle") => ~LastRequestFailed

(***************************************************************************)
(* Claims about RAGPipeline.query                                          *)
(***************************************************************************)
\* C1: a query whose retrieval yields no results returns the fixed
\* 'insufficient information' answer and never invokes the generation
\* client.
C1_EmptyRetrievalShortCircuits ==
    (qLast.op = "query" /\ qLast.results = <<>>) =>
        /\ qLast.llmCalls = 0
        /\ ~qLast.raised
        /\ qLast.response.answer = FallbackAnswer

(***************************************************************************)
(* Claims about FAISSVectorStore                                           *)
(***************************************************************************)
StoreEmpty ==
    /\ ntotal = 0
    /\ texts = <<>>
    /\ metadata = <<>>
    /\ DOMAIN id_to_metadata = {}

\* C7: after any sequence of add_vectors, search, save, load and clear
\* calls the number of indexed vectors, the length of texts and the length
\* of metadata are equal.
C7_CountsEqual ==
    /\ ntotal = Len(texts)
    /\ Len(texts) = Len(metadata)

\* C8: after a load() that found the index file or the metadata file
\* missing, the store is empty, whatever it held before.
C8_LoadMissingFilesLeavesEmpty ==
    (lastCall.op = "load" /\ ~(lastCall.index_found /\ lastCall.meta_found))
        => StoreEmpty

\* C9: after clear() the store is empty (no vectors, texts, metadata,
\* id_to_metadata) and has the dimension it was constructed with.
C9_ClearEmptiesStore ==
    lastCall.op = "clear" =>
        /\ StoreEmpty
        /\ index.d = dimension
        /\ dimension = Dim

\* C10: add_vectors is all-or-nothing: a call that raises leaves index,
\* texts, metadata and id_to_metadata as they were, and a call that returns
\* has appended all n entries to each of them, keeping what was there.
AddedAll(n) ==
    /\ Len(index'.vecs) = Len(index.vecs) + n
    /\ SubSeq(index'.vecs, 1, Len(index.vecs)) = index.vecs
    /\ Len(texts') = Len(texts) + n
    /\ SubSeq(texts', 1, Len(texts)) = texts
    /\ Len(metadata') = Len(metadata) + n
    /\ SubSeq(metadata', 1, Len(metadata)) = metadata
    /\ \A i \in 1..n :
          LET m == metadata'[Len(metadata) + i]
          IN /\ m.text = texts'[Len(texts) + i]
             /\ m.id \in DOMAIN id_to_metadata'
             /\ id_to_metadata'[m.id] = m

IdsByPosition ==
    /\ DOMAIN id_to_metadata = {i - 1 : i \in 1..Len(metadata)}
    /\ \A i \in 1..Len(metadata) :
          /\ metadata[i].id = i - 1
          /\ id_to_metadata[i - 1] = metadata[i]

C11_IdsContiguous ==
    /\ [][(lastCall'.op = "add_vectors" /\ ~lastCall'.raised) =>
             /\ Len(metadata') = Len(metadata) + lastCall'.n
             /\ \A i \in 1..lastCall'.n :
                   /\ metadata'[Len(metadata) + i].id = ntotal + i - 1
                   /\ id_to_metadata'[ntotal + i - 1] =
                         metadata'[Len(metadata) + i]]_vars
    /\ []IdsByPosition

\* C11 witness: a second add_vectors call returned on a store that held an
\* entry, so that its ids start above 0.
C11_Witness ==
    /\ lastCall.op = "add_vectors"
    /\ ~lastCall.raised
    /\ lastCall.n = 2
    /\ Len(metadata) = 3
    /\ metadata[3].id = 2

\* C12: across add_vectors, clear and load calls on one store instance an
\* id that an entry has held is never given to another entry (every entry
\* add_vectors inserts is a new one, so its id must be fresh), and the
\* entries already stored keep their ids.
C12_IdsNeverReused ==
    [][(lastCall'.op = "add_vectors" /\ ~lastCall'.raised) =>
          /\ \A i \in (Len(metadata) + 1)..Len(metadata') :
                metadata'[i].id \notin assigned_ids
          /\ \A i \in 1..Len(metadata) :
                metadata'[i].id = metadata[i].id]_vars

\* C13: search(q, k) returns at most min(k, ntotal) results, their scores
\* do not increase along the list, and on an empty store it returns the
\* empty list.
C13_SearchBoundedSorted ==
    \A q \in Queries, k \in 1..(MaxStore + 1) :
        LET r == search(Self, q, k)
        IN /\ Len(r) <= Min(k, ntotal)
           /\ \A i \in 1..(Len(r) - 1) : r[i].score >= r[i + 1].score
           /\ ntotal = 0 => r = <<>>

\* C13 witness: a store of three entries on which a search for two returns
\* two results of different scores, the better one first although it was
\* stored later.
C13_Witness ==
    /\ ntotal = 3
    /\ \E q \in Queries :
          LET r == search(Self, q, 2)
          IN /\ Len(r) = 2
             /\ r[1].score > r[2].score
             /\ r[1].id > r[2].id

\* C14: round trip.  save() writes files from which load() rebuilds the
\* store as it is: the same index, the same ordered metadata with the ids
\* 0..n-1, the same texts, the same id_to_metadata, and the same search
\* results for every query and k; and load() into a fresh store builds
\* exactly what the files hold.
OnDisk(di, dm) == [index |-> di.index, metadata |-> dm.metadata]

C14_SaveLoadRoundTrip ==
    [][/\ (lastCall'.op = "save" /\ hasPaths) =>
            /\ disk_index'.exists /\ disk_meta'.exists
            /\ disk_index'.index = index
            /\ disk_meta'.metadata = metadata
            /\ load_texts(disk_meta') = texts
            /\ load_id_to_metadata(disk_meta') = id_to_metadata
            /\ \A q \in Queries, k \in 1..MaxStore :
                  search(OnDisk(disk_index', disk_meta'), q, k)
                     = search(Self, q, k)
       /\ (lastCall.op = "init" /\ lastCall'.op = "load"
              /\ lastCall'.index_found /\ lastCall'.meta_found) =>
            /\ index' = disk_index.index
            /\ metadata' = disk_meta.metadata
            /\ texts' = [i \in 1..Len(disk_meta.metadata) |->
                            disk_meta.metadata[i].text]
            /\ Len(texts') = Len(index'.vecs)
            /\ \A i \in 1..Len(metadata') :
                  /\ metadata'[i].id = i - 1
                  /\ id_to_metadata'[i - 1] = metadata'[i]
            /\ \A q \in Queries, k \in 1..MaxStore :
                  search(Self, q, k)'
                     = search(OnDisk(disk_index, disk_meta), q, k)]_vars

\* C14 witness: a fresh store has loaded two entries that an earlier
\* instance saved.
C14_Witness ==
    /\ lastCall.op = "load"
    /\ lastCall.index_found /\ lastCall.meta_found
    /\ ntotal = 2
    /\ Len(metadata) = 2
    /\ texts = <<"alef", "ba  ba">>
    /\ disk_meta.metadata = metadata
    /\ assigned_ids = {0, 1}

\* The maximal similarity, 1.0.
MaxSimilarity == Cos100(0)

\* Two non-zero vectors that differ at most in length.
SameDirection(u, v) ==
    /\ u.d = v.d
    /\ u.ang = v.ang
    /\ u.mag > 0 /\ v.mag > 0

\* C19: a query equal (up to length) to a stored vector returns first an
\* entry that holds this vector, with the maximal similarity, and it is
\* that very entry when no other entry holds the same direction; after
\* adding two entries with texts a, b to an empty store,
\* search(v1, top_k=1) is exactly one result with text a and score 1.0.
C19_SelfQueryReturnsEntryFirst ==
    /\ \A i \in 1..ntotal, q \in Queries, k \in 1..MaxStore :
          (SameDirection(q, index.vecs[i]) /\ Len(metadata) = ntotal) =>
             LET r == search(Self, q, k)
             IN /\ Len(r) = Min(k, ntotal)
                /\ r[1].score = MaxSimilarity
                /\ index.vecs[r[1].id + 1] = index.vecs[i]
                /\ (\A j \in 1..ntotal : j # i => index.vecs[j] # index.vecs[i])
                      => /\ r[1].id = i - 1
                         /\ r[1].text = metadata[i].text
    /\ (ntotal = 2 /\ Len(metadata) = 2) =>
          \A q \in Queries :
              SameDirection(q, index.vecs[1]) =>
                  search(Self, q, 1) =
                     <<[id |-> 0, text |-> metadata[1].text,
                        source |-> metadata[1].source,
                        score |-> MaxSimilarity]>>

\* C19 witness: two entries with different vectors and the texts a, b were
\* added to an empty store, and a search for the first vector returns a.
C19_Witness ==
    /\ lastCall.op = "add_vectors"
    /\ ~lastCall.raised
    /\ lastCall.n = 2
    /\ ntotal = 2
    /\ index.vecs[1] # index.vecs[2]
    /\ texts = <<"alef", "ba  ba">>
    /\ \E q \in Queries :
          /\ SameDirection(q, index.vecs[1])
          /\ Len(search(Self, q, 1)) = 1
          /\ search(Self, q, 1)[1].text = "alef"

(***************************************************************************)
(* Claims about RetrievalEngine.retrieve                                   *)
(***************************************************************************)
\* The thresholds retrieve is called with: the engine's default and the
\* scores a hit can have exactly.
MinScores == {MinScore, Cos100(1), Cos100(2)}

\* C15: every result of retrieve(query, top_k, min_score) has a score of at
\* least min_score, every hit of the search with such a score is returned,
\* and the results are in the order of the search output (best first).
C15_RetrieveFiltersByMinScore ==
    /\ \A q \in Queries, k \in 1..TopK, ms \in MinScores :
          LET hits == search(Self, q, k)
              r == retrieve(q, k, ms)
              kept == {i \in DOMAIN hits : hits[i].score >= ms}
          IN /\ \A i \in DOMAIN r : r[i].score >= ms
             /\ Len(r) = Cardinality(kept)
             /\ \A i \in kept : r[Cardinality({j \in kept : j <= i})] = hits[i]
             /\ \A i \in 1..(Len(r) - 1) : r[i].score >= r[i + 1].score
    /\ qLast.op = "query" =>
          \A i \in DOMAIN qLast.results : qLast.results[i].score >= MinScore

\* C15 witness: a query on a store of three entries kept two hits and
\* dropped the third, whose score was below min_score.
C15_Witness ==
    /\ qLast.op = "query"
    /\ Len(qLast.results) = 2
    /\ \E q \in Queries :
          /\ qLast.results = retrieve(q, TopK, MinScore)
          /\ Len(search(Self, q, TopK)) = 3

(***************************************************************************)
(* Claims about TextChunker.chunk_text                                     *)
(***************************************************************************)
\* The sentences ss written one after the other with one blank between.
Spaced(ss) ==
    [j \in 1..(2 * Len(ss) - 1) |-> IF j % 2 = 1 THEN ss[(j + 1) \div 2] ELSE 0]

\* The seed chunk c starts with: what precedes its own sentences.
SeedOf(c) ==
    LET own == Len(Spaced(c.sentences))
    IN IF Len(c.text) > own THEN SubSeq(c.text, 1, Len(c.text) - own - 1)
       ELSE <<>>

\* C16: every chunk chunk_text returns, except possibly the last, has a
\* trimmed length between min_chunk_size and chunk_size inclusive.
C16_ChunkLengthWithinBounds ==
    cLast.op = "chunk_text" =>
        \A j \in 1..(Len(cLast.chunks) - 1) :
            LET n == StrLen(cLast.text, cLast.chunks[j].text)
            IN /\ n >= cLast.cfg.min_chunk_size
               /\ n <= cLast.cfg.chunk_size

\* C17: the seed the chunk after a closed chunk starts with is made of
\* whole trailing sentences of the closed chunk in their order, is at most
\* overlap characters long, and is empty when the last sentence of the
\* closed chunk alone is longer than overlap.
C17_OverlapSeedBounded ==
    cLast.op = "chunk_text" =>
        \A j \in 1..(Len(cLast.chunks) - 1) :
            LET closed == cLast.chunks[j]
                next == cLast.chunks[j + 1]
                seed == SeedOf(next)
                n == Len(closed.sentences)
            IN /\ next.text = strip(seed \o <<0>> \o Spaced(next.sentences))
               /\ \E m \in 0..n :
                     seed = Spaced(SubSeq(closed.sentences, n - m + 1, n))
               /\ StrLen(cLast.text, seed) <= cLast.cfg.overlap
               /\ cLast.text[closed.sentences[n]] > cLast.cfg.overlap
                     => seed = <<>>

\* C17 witness: a chunk that starts with a seed of two sentences, and one
\* that starts with no seed because the sentence before it is too long.
C17_Witness ==
    /\ cLast.op = "chunk_text"
    /\ Len(cLast.chunks) = 3
    /\ Len(SeedOf(cLast.chunks[2])) = 3
    /\ SeedOf(cLast.chunks[3]) = <<>>

\* C18: with chunk_size=100, overlap=30 and the default min_chunk_size,
\* a text of three sentences of fewer than 100 characters in all comes
\* back as exactly one chunk holding the three sentences in order.
C18_ThreeShortSentencesOneChunk ==
    ( /\ cLast.op = "chunk_text"
      /\ cLast.cfg = ScenarioConfig
      /\ Len(cLast.text) = 3
      /\ \A i \in 1..3 : cLast.text[i] >= MinSentenceLen
      /\ TextLen(cLast.text) < cLast.cfg.chunk_size )
    => /\ Len(cLast.chunks) = 1
       /\ cLast.chunks[1].text = <<1, 0, 2, 0, 3>>

(***************************************************************************)
(* Claims about index_documents                                            *)
(***************************************************************************)
\* C24: re-indexing rebuilds the store wholesale: after index_documents(D)
\* has completed, the store holds exactly the chunks of D, whatever it
\* held before.
C24_ReindexRebuildsWholesale ==
    (iLast.op = "index_documents" /\ ~iLast.raised) =>
        /\ texts = chunk_directory(iLast.dir).texts
        /\ ntotal = Len(chunk_directory(iLast.dir).texts)

\* Every entry the store old held is found in the store new by a search
\* for the entry's own direction.
Findable(old, new) ==
    \A i \in 1..Len(old.metadata) :
        old.index.vecs[i].mag # 0 =>
            LET rs == search(new, old.index.vecs[i], MaxStore)
            IN \E j \in 1..Len(rs) :
                  rs[j].id = old.metadata[i].id /\ rs[j].text = old.metadata[i].text

\* C25: an index_documents call that fails (missing directory, vectors
\* the store rejects) leaves every entry of the store as it was and
\* findable by search, and the store consistent: as many vectors as
\* texts and metadata entries.
C25_FailedIndexKeepsEntries ==
    [][(iLast'.op = "index_documents" /\ iLast'.raised) =>
          /\ index' = index
          /\ texts' = texts
          /\ metadata' = metadata
          /\ id_to_metadata' = id_to_metadata
          /\ Findable(Self, [index |-> index', metadata |-> metadata'])
          /\ ntotal' = Len(texts') /\ ntotal' = Len(metadata')]_vars

\* C25 witness: a call the store rejected (one vector of the wrong
\* dimension among the batch) on a store that held an entry.
C25_Witness ==
    /\ iLast.op = "index_documents"
    /\ iLast.raised
    /\ iLast.dir = "two"
    /\ iLast.how = "ragged"
    /\ iLast.before = 1
    /\ ntotal = 1

(***************************************************************************)
(* Claims about RAGPipeline.stream_query                                   *)
(***************************************************************************)
\* C29: query and stream_query take the same short-circuit decision: on
\* the store and for the question of a stream_query call, stream_query
\* yields only the canned answer and makes no generation call exactly
\* when query returns the canned answer without a generation call.
C29_SameShortCircuitDecision ==
    [][(sqLast.op = "none" /\ sqLast'.op = "stream_query") =>
          \A llm \in LlmOutcomes :
              LET r == query(sqLast'.q, llm)
              IN (sqLast'.llmCalls = 0 /\ sqLast'.fragments = <<FallbackAnswer>>)
                    <=> (r.llmCalls = 0 /\ r.answer = FallbackAnswer)]_vars

\* C29 witness: a question asked through stream_query on a store whose
\* retrieval for it is empty: like query, it calls the generation client.
C29_Witness ==
    /\ sqLast.op = "stream_query"
    /\ ntotal > 0
    /\ sqLast.results = <<>>
    /\ sqLast.llmCalls = 1
    /\ query(sqLast.q, "answer").llmCalls = 1

(***************************************************************************)
(* Claims about the HTTP boundary                                          *)
(***************************************************************************)
Streamed == aLast.response.endpoint = "/chat/stream" /\ aLast.response.status = 200
FramesOfType(frames, type) == {i \in 1..Len(frames) : frames[i].type = type}

\* C26: the frames of every /chat/stream response are zero or more content
\* frames, then at most one error frame, then exactly one end marker as the
\* last frame, whether the underlying stream succeeds, is empty or raises.
C26_FrameSequenceShape ==
    Streamed =>
        LET frames == aLast.response.frames
            n == Len(frames)
        IN /\ n >= 1
           /\ FramesOfType(frames, "done") = {n}
           /\ FramesOfType(frames, "error") \subseteq {n - 1}
           /\ \A i \in 1..n : frames[i].type \in {"content", "error", "done"}

\* C26 witness: a stream that raised after two fragments: two content
\* frames, the error frame, the end marker.
C26_Witness ==
    /\ Streamed
    /\ Len(aLast.response.frames) = 4
    /\ aLast.response.frames[1].type = "content"
    /\ aLast.response.frames[2].type = "content"
    /\ aLast.response.frames[3].type = "error"

\* The fixed messages of the boundary layer.
GenericMessages ==
    {"Question cannot be empty",
     "No documents indexed - use /index endpoint first",
     "Error processing question: ", "Error indexing: ", GenericError}

\* C27: whatever fails in the generation or indexing layer, the response
\* of /chat, /chat/stream and /index carries only fixed generic messages,
\* never the text of the exception.
C27_NoRawExceptionText ==
    aLast.response.endpoint # "none" =>
        /\ \A i \in 1..Len(aLast.response.detail) :
              aLast.response.detail[i] \in GenericMessages
        /\ \A i \in FramesOfType(aLast.response.frames, "error") :
              aLast.response.frames[i].text \in GenericMessages

\* C28: a non-blank question asked while the store holds no entries is
\* not answered with an error on /chat or /chat/stream: the response
\* carries the fixed 'insufficient information' answer.
C28_EmptyStoreAnsweredWithFallback ==
    ( /\ aLast.response.endpoint \in {"/chat", "/chat/stream"}
      /\ ~aLast.blank
      /\ ~aLast.indexed ) =>
        /\ aLast.response.status = 200
        /\ \/ aLast.response.answer = FallbackAnswer
           \/ \E i \in 1..Len(aLast.response.frames) :
                 aLast.response.frames[i] = ContentFrame(FallbackAnswer)

(***************************************************************************)
(* Claims about concurrent requests                                        *)
(***************************************************************************)
\* An index build that has inserted its vectors but not yet their
\* metadata and texts.
MidMutation(t) == tasks[t].kind = "index" /\ tasks[t].pc = "added_vectors"
StoreContents == <<index, texts, metadata, id_to_metadata>>
Searched(u) == tasks[u].pc = "start" /\ tasks'[u].pc \in {"retrieved", "frame"}

\* C23: under concurrent requests two index builds never interleave their
\* mutations of the store, and no search observes the store between the
\* vector insertion and the end of the metadata/text insertion of an
\* add_vectors call: while a build is between the two, the only step that
\* changes the store is its own metadata insertion and no request
\* searches; every search saw as many vectors as metadata entries.
C23_IndexBuildsSerialized ==
    /\ [][\A t \in Tasks : MidMutation(t) =>
             /\ StoreContents' # StoreContents => tasks'[t].pc = "added_meta"
             /\ \A u \in Tasks \ {t} : ~Searched(u)]_vars
    /\ [](\A t \in Tasks : \A i \in 1..Len(tasks[t].seen) :
              tasks[t].seen[i].ntotal = tasks[t].seen[i].nmeta)

\* C23 witness: an index build between its two insertions on a store that
\* already held an entry, while the handler of another request is waiting.
C23_Witness ==
    \E t, u \in Tasks :
        /\ t # u
        /\ MidMutation(t)
        /\ tasks[u].pc = "start"
        /\ ntotal = 2
        /\ Len(metadata) = 1

(***************************************************************************)
(* Store instances of different dimensions that share the index and        *)
(* metadata files (faiss_store.py).                                        *)
(***************************************************************************)
\* The dimensions a store is constructed with.
Dimensions == {Dim, Dim + 1}

\* __init__, lines 23-44: a store of dimension d on the shared paths.
Construct ==
    /\ \E d \in Dimensions :
          /\ dimension' = d
          /\ index' = EmptyIndex(d)
    /\ texts' = <<>>
    /\ metadata' = <<>>
    /\ id_to_metadata' = <<>>
    /\ lastCall' = Call("init", FALSE, 0, FALSE, FALSE)
    /\ assigned_ids' = {}
    /\ UNCHANGED <<hasPaths, disk_index, disk_meta>>
    /\ UNCHANGED <<genVars, streamVars, queryVars, chunkVars, pipeVars>>

NextDim ==
    \/ Construct
    \/ AddVectors
    \/ Save
    \/ Load
    \/ Clear

SpecDim == InitPersist /\ [][NextDim]_vars

\* The vectors a step has inserted into the index.
Inserted == SubSeq(index'.vecs, Len(index.vecs) + 1, Len(index'.vecs))

\* C31: the vector dimension of a store instance never changes over its
\* lifetime (across add_vectors, load and clear), and every add_vectors
\* call whose vectors do not have exactly that dimension is rejected
\* without inserting anything: after every call of the instance the index
\* has the dimension the instance was constructed with, and the vectors an
\* add_vectors call inserts have that dimension.
C31_DimensionFixed ==
    /\ [][lastCall'.op = "add_vectors" =>
             \A i \in 1..Len(Inserted) : Inserted[i].d = dimension]_vars
    /\ [](index.d = dimension)

(***************************************************************************)
(* One TextChunker instance called again and again (text_chunker.py).      *)
(***************************************************************************)
\* The texts the instance is asked to chunk: up to three pieces, short
\* enough for the overlap, of medium length, and longer than the overlap.
RepeatTexts == SeqsUpTo({20, 60, 130}, 3)

\* TextChunker.__init__, lines 22-35: a new instance.
ChunkerConstruct ==
    /\ cLast.op = "none"
    /\ \E cfg \in Configs : chunker' = cfg
    /\ cEarlier' = [op |-> "none"]
    /\ UNCHANGED cLast
    /\ UNCHANGED <<genVars, streamVars, storeVars, queryVars, pipeVars>>

\* Mutant of self_after_chunk_text: the call uses up the overlap.
self_after_chunk_text_no_overlap(self) == [self EXCEPT !.overlap = 0]

\* chunk_text, lines 36-87, assigns no attribute of self; the helpers it
\* calls (lines 89-129) do not either.
self_after_chunk_text(self) == self

\* chunker.chunk_text(text): the instance's attributes are the
\* configuration.  The caller may keep the result to compare it with that
\* of a later call.
ChunkerCall ==
    /\ cLast.op = "none"
    /\ \E text \in RepeatTexts :
          cLast' = [op |-> "chunk_text", cfg |-> chunker, text |-> text,
                    chunks |-> chunk_text(chunker, text)]
    /\ chunker' = self_after_chunk_text(chunker)
    /\ UNCHANGED cEarlier
    /\ UNCHANGED <<genVars, streamVars, storeVars, queryVars, pipeVars>>

\* The call returns; the caller keeps its result or the one it kept.
ChunkerReturn ==
    /\ cLast.op = "chunk_text"
    /\ cLast' = [op |-> "none"]
    /\ \/ cEarlier' = [op |-> "chunk_text", text |-> cLast.text,
                       chunks |-> cLast.chunks]
       \/ UNCHANGED cEarlier
    /\ UNCHANGED chunker
    /\ UNCHANGED <<genVars, streamVars, storeVars, queryVars, pipeVars>>

NextRepeat ==
    \/ ChunkerConstruct
    \/ ChunkerCall
    \/ ChunkerReturn

SpecRepeat == InitChunk /\ [][NextRepeat]_vars

C33_ResponseShape ==
    (qLast.op = "query" /\ ~qLast.raised) =>
       LET response == qLast.response
           results == qLast.results
       IN /\ {"question", "answer"} \subseteq DOMAIN response
          /\ response.question = qLast.question
          /\ "context" \in DOMAIN response <=> qLast.return_context
          /\ "sources" \in DOMAIN response <=> qLast.return_context
          /\ qLast.return_context =>
                /\ response.context = qLast.context
                /\ Len(response.sources) = Len(results)
                /\ \A i \in 1..Len(results) :
                      LET s == response.sources[i]
                      IN /\ s.text = results[i].text
                         /\ s.score = results[i].score
                         /\ DOMAIN s.metadata =
                               DOMAIN results[i] \ {"text", "score"}
                         /\ \A k \in DOMAIN s.metadata :
                               s.metadata[k] = results[i][k]

\* C33 witness: a query with return_context that retrieved two results and
\* got a generated answer.
C33_Witness ==
    /\ qLast.op = "query"
    /\ ~qLast.raised
    /\ qLast.return_context
    /\ Len(qLast.results) = 2
    /\ qLast.response.answer = GeneratedAnswer
    /\ DOMAIN qLast.response.sources[2].metadata = {"id", "source"}

(***************************************************************************)
(* save() step by step, in a process that may stop at any point            *)
(* (faiss_store.py:114-129).  lastCall.op = "write_index" marks the point  *)
(* between the two writes.                                                 *)
(***************************************************************************)
InSave == lastCall.op = "write_index"

\* Line 118: faiss.write_index writes the index file in place.
SaveWriteIndex ==
    /\ hasPaths
    /\ ~InSave
    /\ disk_index' = [exists |-> TRUE, index |-> index]
    /\ lastCall' = Call("write_index", FALSE, 0, FALSE, FALSE)
    /\ UNCHANGED <<dimension, hasPaths, index, texts, metadata, id_to_metadata,
                   disk_meta, assigned_ids>>
    /\ UNCHANGED <<genVars, streamVars, queryVars, chunkVars, pipeVars>>

\* Lines 122-126: open(metadata_path, 'w') and json.dump.
SaveWriteMetadata ==
    /\ InSave
    /\ disk_meta' =
         [exists |-> TRUE,
          metadata |-> metadata,
          id_to_metadata |->
             {<<str(k), id_to_metadata[k]>> : k \in DOMAIN id_to_metadata}]
    /\ lastCall' = Call("save", FALSE, 0, FALSE, FALSE)
    /\ UNCHANGED <<dimension, hasPaths, index, texts, metadata, id_to_metadata,
                   disk_index, assigned_ids>>
    /\ UNCHANGED <<genVars, streamVars, queryVars, chunkVars, pipeVars>>

\* The calls of a process that is not inside save().
CrashAddVectors == ~InSave /\ AddVectors
CrashLoad == ~InSave /\ Load

NextCrash ==
    \/ CrashAddVectors
    \/ SaveWriteIndex
    \/ SaveWriteMetadata
    \* the process stops, during save() or between calls, and the next
    \* process constructs its store (api.py:95)
    \/ Restart
    \/ CrashLoad

SpecCrash == InitPersist /\ [][NextCrash]_vars

\* C34: persistence is atomic: if the process stops at any point during
\* save(), a later load() never observes a new vector index paired with an
\* old (or missing) metadata sidecar: what load() found on disk is the
\* index and the metadata of one save(), so it holds as many vectors as
\* metadata entries.
C34_LoadSeesOneVersion ==
    (lastCall.op = "load" /\ lastCall.index_found) =>
        /\ lastCall.meta_found
        /\ Len(disk_index.index.vecs) = Len(disk_meta.metadata)

(***************************************************************************)
(* Claims about chunk ids (text_chunker.py)                                *)
(***************************************************************************)
\* dict.get(key, default)
get(d, key, default) == IF key \in DOMAIN d THEN d[key] ELSE default

\* chunk_directory, lines 181-188: the metadata dict built for each chunk
\* of a document (its source entry, a copy of the chunk's, is left out).
directory_metadata(chunks) ==
    [i \in 1..Len(chunks) |->
        [chunk_index |-> get(chunks[i], "chunk_index", 0)]]

\* C35: chunk ids are sequence indices within the document: chunk_text
\* numbers the chunks of one document 0, 1, 2, ... in order, and the chunk
\* index that chunk_directory puts into the metadata stored for a chunk
\* equals that chunk's sequence index.
C35_ChunkIndexIsSequenceIndex ==
    cLast.op = "chunk_text" =>
        \A i \in 1..Len(cLast.chunks) :
            /\ cLast.chunks[i].chunk_id = i - 1
            /\ directory_metadata(cLast.chunks)[i].chunk_index = i - 1

(***************************************************************************)
(* Claims about the retry loop of stream_generate                          *)
(***************************************************************************)
\* C36: in stream_generate the delay waited after the rate-limited attempt
\* number i (counting from 0) is min(2^i, 30) seconds, so successive delays
\* are non-decreasing, never exceed 30, and are strictly increasing while
\* below the cap.  (sWaits[i + 1] is the delay after attempt i; a delay is
\* waited after rate-limited attempts only.)
C36_StreamBackoffDelays ==
    /\ \A i \in 1..Len(sWaits) :
          /\ sLog[i] = "429"
          /\ sWaits[i] = IF 2 ^ (i - 1) < 30 THEN 2 ^ (i - 1) ELSE 30
          /\ sWaits[i] <= 30
    /\ \A i \in 1..(Len(sWaits) - 1) :
          /\ sWaits[i] <= sWaits[i + 1]
          /\ sWaits[i] < 30 => sWaits[i] < sWaits[i + 1]

\* C36 witness: every attempt of a call was rate-limited, so the call
\* waited max_retries times.
C36_Witness ==
    /\ StreamEnded
    /\ Len(sWaits) = max_retries
    /\ sWaits[max_retries] = 16

\* C37: all fragments yielded by one stream_generate call come from a
\* single HTTP attempt: once any fragment has been yielded, no new
\* streaming request is issued, so a retry can never repeat or duplicate
\* fragments already delivered to the consumer.
C37_FragmentsFromOneAttempt ==
    /\ [][(yielded # <<>> /\ StreamActive) => sLog' = sLog]_vars
    /\ [](\A i, j \in 1..Len(yielded) : yielded[i] = yielded[j])
    /\ [](\A i \in 1..Len(yielded) :
             yielded[i].from = "stream" => yielded[i].attempt = Len(sLog) - 1)

\* C37 witness: a call that was rate-limited once, then streamed two
\* fragments from its second request and ended.
C37_Witness ==
    /\ spc = "done"
    /\ sLog = <<"429", "200">>
    /\ Len(yielded) = 2
    /\ yielded[1].from = "stream"

(***************************************************************************)
(* Claims about POST /index                                                *)
(***************************************************************************)
\* A step in which /index answers a request whose text directory does not
\* exist.
MissingDirAnswered ==
    /\ aLast'.response.endpoint = "/index"
    /\ \E i \in 1..Len(aLast'.response.detail) :
          aLast'.response.detail[i] = DirNotFoundText

\* What the store holds in memory and on disk.
StoreAndFiles ==
    <<index, texts, metadata, id_to_metadata, disk_index, disk_meta>>

\* C38: POST /index with a text directory that does not exist is answered
\* with HTTP status 400 (a validation error), and neither the in-memory
\* store nor the persisted index is modified.
C38_MissingDirectoryIs400 ==
    [][MissingDirAnswered =>
          /\ aLast'.response.status = 400
          /\ StoreAndFiles' = StoreAndFiles]_vars

(***************************************************************************)
(* Claims about the sentences chunk_text keeps                             *)
(***************************************************************************)
\* The sentences lists of the chunks, one after the other.
RECURSIVE EmittedSentences(_)
EmittedSentences(chunks) ==
    IF chunks = <<>> THEN <<>>
    ELSE Head(chunks).sentences \o EmittedSentences(Tail(chunks))

\* The pieces of the last call's text that have at least 10 characters.
LongPieces ==
    SelectSeq([i \in 1..Len(cLast.text) |-> i], LAMBDA i : cLast.text[i] >= 10)

\* The sentences of the last call that are in no emitted chunk.
LostSentences ==
    SubSeq(LongPieces, Len(EmittedSentences(cLast.chunks)) + 1, Len(LongPieces))

\* C39: chunk_text loses no sentence except in a dropped final chunk:
\* every sentence of at least 10 characters appears in the sentences list
\* of exactly one emitted chunk, in document order, unless it belongs to a
\* final chunk that is discarded for being shorter than min_chunk_size.
\* The sentences lists, one after the other, are the sentences of the
\* document up to some point, and what follows that point is shorter than
\* min_chunk_size.
C39_NoSentenceLost ==
    cLast.op = "chunk_text" =>
        LET emitted == EmittedSentences(cLast.chunks)
        IN /\ Len(emitted) <= Len(LongPieces)
           /\ emitted = SubSeq(LongPieces, 1, Len(emitted))
           /\ LostSentences # <<>> =>
                 StrLen(cLast.text, Spaced(LostSentences))
                     < cLast.cfg.min_chunk_size

\* C39 witness: a text of four sentences comes back as two chunks, the
\* second starting with a seed, and its last sentence was in the final
\* chunk, which was dropped.
C39_Witness ==
    /\ cLast.op = "chunk_text"
    /\ Len(cLast.text) = 4
    /\ Len(LongPieces) = 4
    /\ Len(cLast.chunks) = 2
    /\ SeedOf(cLast.chunks[2]) # <<>>
    /\ LostSentences = <<4>>

(***************************************************************************)
(* The generator of chat_stream, api.py:210-257, step by step.  csGen      *)
(* holds its locals, the fragments stream_query has not yielded yet, the   *)
(* frames sent, and how often the fallback query was called.               *)
(***************************************************************************)
\* Mutant of NeedsFallback: the fallback does not look at has_content.
NeedsFallbackAlways(has_content) == TRUE

\* Line 228: if not has_content.
NeedsFallback(has_content) == ~has_content

\* The checks of lines 198-208 have passed (the store holds texts);
\* StreamingResponse starts to pull the generator (lines 211-216), which
\* pulls stream_query.
CsOpen ==
    /\ csGen.pc = "idle"
    /\ Len(texts) # 0
    /\ \E q \in Queries, run \in StreamRuns :
          LET sq == stream_query(q, run)
          IN csGen' = [CsIdle EXCEPT !.pc = "streaming", !.q = q,
                                     !.pending = sq.fragments,
                                     !.raises = sq.raised]
    /\ UNCHANGED qLast
    /\ UNCHANGED <<genVars, streamVars, storeVars, chunkVars, pipeVars>>

\* One turn of the for loop, lines 217-225, or its end: stream_query
\* raises (lines 249-257) or is exhausted (line 228).
CsPull ==
    /\ csGen.pc = "streaming"
    /\ IF csGen.pending # <<>>
       THEN LET chunk == Head(csGen.pending)
            IN csGen' = IF chunk = ""
                        THEN [csGen EXCEPT !.pending = Tail(@)]
                        ELSE [csGen EXCEPT !.pending = Tail(@),
                                           !.has_content = TRUE,
                                           !.frames = Append(@, ContentFrame(chunk))]
       ELSE IF csGen.raises
       THEN csGen' = [csGen EXCEPT !.pc = "done",
                                   !.error_sent = TRUE,
                                   !.frames = @ \o ErrorTail(csGen.error_sent)]
       ELSE IF NeedsFallback(csGen.has_content)
       THEN csGen' = [csGen EXCEPT !.pc = "fallback"]
       ELSE csGen' = [csGen EXCEPT !.pc = "done",
                                   !.frames = Append(@, DoneFrame)]
    /\ UNCHANGED qLast
    /\ UNCHANGED <<genVars, streamVars, storeVars, chunkVars, pipeVars>>

\* Lines 230-246: the fallback query, its frame, the end marker.
CsFallback ==
    /\ csGen.pc = "fallback"
    /\ \E llm \in LlmOutcomes :
          LET fb == query(csGen.q, llm)
          IN
          csGen' = [csGen EXCEPT
                       !.pc = "done",
                       !.fallbacks = @ + 1,
                       !.has_content = @ \/ (~fb.raised /\ fb.answer # ""),
                       !.error_sent = fb.raised,
                       !.frames = @ \o FallbackFrames(fb) \o <<DoneFrame>>]
    /\ UNCHANGED qLast
    /\ UNCHANGED <<genVars, streamVars, storeVars, chunkVars, pipeVars>>

\* index_documents fills the store between two requests.
CsAddVectors == csGen.pc = "idle" /\ AddVectors

\* The response is complete; the next request may come.
CsClose ==
    /\ csGen.pc = "done"
    /\ csGen' = CsIdle
    /\ UNCHANGED qLast
    /\ UNCHANGED <<genVars, streamVars, storeVars, chunkVars, pipeVars>>

NextChatStream ==
    \/ CsAddVectors
    \/ CsOpen
    \/ CsPull
    \/ CsFallback
    \/ CsClose

SpecChatStream == InitGen /\ [][NextChatStream]_vars

\* C40: in /chat/stream the boundary-level fallback to the non-streaming
\* pipeline.query runs at most once per request, and only when
\* stream_query has ended without any non-empty fragment having been sent
\* as a content frame.
C40_FallbackOnceAndOnlyIfNothingSent ==
    /\ [][csGen'.fallbacks > csGen.fallbacks =>
             /\ csGen.fallbacks = 0
             /\ csGen.pending = <<>>
             /\ ~csGen.raises
             /\ FramesOfType(csGen.frames, "content") = {}]_vars
    /\ [](csGen.fallbacks <= 1)
    /\ [](csGen.pc = "fallback" =>
             FramesOfType(csGen.frames, "content") = {} /\ csGen.pending = <<>>)

\* C40 witness: stream_query ended without a fragment, the fallback query
\* ran and its answer was sent as the only content frame.
C40_Witness ==
    /\ csGen.pc = "done"
    /\ csGen.fallbacks = 1
    /\ csGen.frames = <<ContentFrame(GeneratedAnswer), DoneFrame>>

=============================================================================
